---- MODULE Spec2Model ----
(***************************************************************************)
(* A model of the electrovision scripts:                                   *)
(*   backend/python/parse_dxf.py, parse_pdf.py   (SpecClassify, SpecParse) *)
(*   ai_model/sync_classes.py                    (SpecSync)                *)
(*   ai_model/prepare_training_data.py,                                    *)
(*   data-prep/format_converter.py, extract_from_pdf.py   (SpecOrganize)   *)
(*   backend.py                                  (SpecUpload)              *)
(*   ai_model/labelimg_final_fix.py              (SpecLabelImg)            *)
(*   ai_model/train.py                           (SpecTrain)               *)
(*   ai_model/get_sample_data.py                 (SpecSample)              *)
(*   data-prep/format_converter.py, extract_from_pdf.py mains (SpecCli)    *)
(*   data-prep/format_converter.py convert_coco_to_yolo       (SpecCoco)   *)
(* Text is a sequence of one-character strings, so that substring tests,   *)
(* case folding, joining and line splitting are computed, not assumed.     *)
(* Lengths and coordinates that the code holds as floats are held as       *)
(* integers in a fixed unit (hundredths for a radius, halves for a         *)
(* drawing coordinate); distances are compared by their squares.           *)
(***************************************************************************)
EXTENDS Integers, Sequences, FiniteSets, TLC

VARIABLES
    clsEntity,      \* classify_entity_type: the entity passed in
    clsResult,      \* classify_entity_type: the category returned ("none" before the call)
    argv,           \* parser scripts: sys.argv, the script name included
    disk,           \* parser scripts: what the file named by argv[1] holds
    stdout,         \* parser scripts: what the script printed to stdout
    exitCode,       \* parser scripts: the process exit status (-1 while not run)
    parseCalls,     \* parser scripts: the parse functions called, in order
    fsTouched,      \* parser scripts: whether the run created or opened any file
    config,         \* sync_classes: the loaded config.yaml
    classesFiles,   \* sync_classes: content of each classes.txt ("missing" when absent)
    writable,       \* sync_classes: the target files the OS lets the script write
    syncRet,        \* sync_classes: the last return value of sync_classes
    validateRet,    \* sync_classes: the last return value of validate_sync
    fs,             \* organising steps: the files of the dataset directories
    orgCall,        \* organising steps: the last call and its arguments
    orgRet,         \* organising steps: what the last call returned
    cliArgs,        \* data-prep scripts: the --train-split that argparse parsed
    uploads,        \* backend: the files saved in UPLOAD_FOLDER (their extensions)
    response,       \* backend: the last HTTP response
    handlerRuns,    \* backend: the handlers run by the last request
    labelimg_path,  \* labelimg_final_fix: whether find_venv_labelimg finds LabelImg
    main_file,      \* labelimg_final_fix: labelImg.py
    backup_file,    \* labelimg_final_fix: labelImg.py.backup
    installed,      \* labelimg_final_fix: labelImg.py as the package installed it
    fixLog,         \* labelimg_final_fix: the runs so far, <<mode, return value>> each
    trainEnv,       \* train: CUDA, the files of the val directories, what model.train does
    trainerConfig,  \* train: self.config (device, batch_size)
    trainCalls,     \* train: the model.train calls made, in order
    trainRet,       \* train: how train_model ended (<<>> while not run)
    dynamic_config, \* train: the file dataset_dynamic.yaml
    samplesMade,    \* get_sample_data: <<train samples, val samples>> written so far
    lastSample,     \* get_sample_data: the image and the label file written last
    cocoData,       \* convert_coco_to_yolo: what json.load gives for the COCO file
    yoloDir,        \* convert_coco_to_yolo: the files of annotations/yolo
    cocoLog         \* convert_coco_to_yolo: the message logged last ("none" before)

clsVars  == <<clsEntity, clsResult>>
mainVars == <<argv, disk, stdout, exitCode, parseCalls, fsTouched>>
syncVars == <<config, classesFiles, writable, syncRet, validateRet>>
orgVars  == <<fs, orgCall, orgRet, cliArgs>>
upVars   == <<uploads, response, handlerRuns>>
fixVars  == <<labelimg_path, main_file, backup_file, installed, fixLog>>
trainVars == <<trainEnv, trainerConfig, trainCalls, trainRet, dynamic_config>>
sampleVars == <<samplesMade, lastSample>>
cocoVars == <<cocoData, yoloDir, cocoLog>>
toolVars == <<fixVars, trainVars, sampleVars, cocoVars>>
vars     == <<clsVars, mainVars, syncVars, orgVars, upVars, toolVars>>

\* hasattr(entity.dxf, a): an entity carries the set of DXF attributes it has.
HasAttr(entity, a) == a \in entity.has

(***************************************************************************)
(* Text helpers (Python str operations).                                   *)
(***************************************************************************)

\* s[i:] for 0 <= i
DropFirst(s, i) == SubSeq(s, i + 1, Len(s))

\* s.startswith(p)
StartsWith(s, p) == Len(p) <= Len(s) /\ SubSeq(s, 1, Len(p)) = p

\* `kw in s` for two str
Contains(s, kw) ==
    \E i \in 0..(Len(s) - Len(kw)) : SubSeq(s, i + 1, i + Len(kw)) = kw

UpperChars == {"S", "W", "P", "D", "F", "X", "A"}

LowerOf(c) ==
    CASE c = "S" -> "s"
      [] c = "W" -> "w"
      [] c = "P" -> "p"
      [] c = "D" -> "d"
      [] c = "F" -> "f"
      [] c = "X" -> "x"
      [] c = "A" -> "a"
      [] OTHER -> c

\* str.lower()
Lower(s) == [i \in 1..Len(s) |-> LowerOf(s[i])]

RECURSIVE Concat(_)
\* "".join(parts)
Concat(parts) ==
    IF parts = <<>> THEN <<>> ELSE Head(parts) \o Concat(Tail(parts))

(***************************************************************************)
(* parse_dxf.py: classify_entity_type                                      *)
(***************************************************************************)

kw_switch     == <<"s","w","i","t","c","h">>
kw_sw         == <<"s","w">>
kw_outlet     == <<"o","u","t","l","e","t">>
kw_socket     == <<"s","o","c","k","e","t">>
kw_receptacle == <<"r","e","c","e","p","t","a","c","l","e">>
kw_light      == <<"l","i","g","h","t">>
kw_lamp       == <<"l","a","m","p">>
kw_fixture    == <<"f","i","x","t","u","r","e">>
kw_panel      == <<"p","a","n","e","l">>
kw_board      == <<"b","o","a","r","d">>
str_unknown   == <<"u","n","k","n","o","w","n">>

\* any(keyword in block_name for keyword in kws)
AnyKeyword(block_name, kws) == \E k \in kws : Contains(block_name, k)

\* The radius limits 0.1, 0.5 and 1.0 in hundredths.
RadiusOutletMin == 10
RadiusOutletMax == 50
RadiusLightMax  == 100

ClassifyCircle(radius) ==
    IF RadiusOutletMin <= radius /\ radius <= RadiusOutletMax THEN "outlet"
    ELSE IF RadiusOutletMax < radius /\ radius <= RadiusLightMax THEN "light_fixture"
    ELSE "general_circle"

\* ClassifyInsert with the outlet keywords tried before the switch keywords.
ClassifyInsert_OutletFirst(entity) ==
    LET block_name == IF HasAttr(entity, "name") THEN Lower(entity.name) ELSE str_unknown
    IN  IF AnyKeyword(block_name, {kw_outlet, kw_socket, kw_receptacle}) THEN "outlet"
        ELSE IF AnyKeyword(block_name, {kw_switch, kw_sw}) THEN "switch"
        ELSE IF AnyKeyword(block_name, {kw_light, kw_lamp, kw_fixture}) THEN "light"
        ELSE IF AnyKeyword(block_name, {kw_panel, kw_board}) THEN "electrical_panel"
        ELSE "electrical_symbol"

ClassifyInsert(entity) ==
    LET block_name == IF HasAttr(entity, "name") THEN Lower(entity.name) ELSE str_unknown
    IN  IF AnyKeyword(block_name, {kw_switch, kw_sw}) THEN "switch"
        ELSE IF AnyKeyword(block_name, {kw_outlet, kw_socket, kw_receptacle}) THEN "outlet"
        ELSE IF AnyKeyword(block_name, {kw_light, kw_lamp, kw_fixture}) THEN "light"
        ELSE IF AnyKeyword(block_name, {kw_panel, kw_board}) THEN "electrical_panel"
        ELSE "electrical_symbol"

classify_entity_type(entity) ==
    IF entity.dxftype = "CIRCLE" THEN ClassifyCircle(entity.radius)
    ELSE IF entity.dxftype = "INSERT" THEN ClassifyInsert(entity)
    ELSE IF entity.dxftype = "LINE" THEN "wire"
    ELSE IF entity.dxftype = "POLYLINE" \/ entity.dxftype = "LWPOLYLINE" THEN "wire_path"
    ELSE IF entity.dxftype = "TEXT" \/ entity.dxftype = "MTEXT" THEN "annotation"
    ELSE IF entity.dxftype = "RECTANGLE" THEN "panel"
    ELSE "general"

(***************************************************************************)
(* parse_dxf.py: extract_entity_properties, analyze_electrical_connections *)
(* and parse_dxf.  A drawing coordinate is held in halves of a drawing     *)
(* unit, and a distance as its square in those units (sqrt is monotone,    *)
(* so `< 1.0' is `< 4' on the squares, and min() picks the same point).    *)
(* Layer information and entity_categories are left out of the result:     *)
(* they are computed from the same lists and read by nothing modelled.     *)
(***************************************************************************)

\* 1.0 ** 2 in squared half-units.
ThresholdSq == 4

Min(a, b) == IF a <= b THEN a ELSE b

DistSq(p, q) == (p[1] - q[1]) * (p[1] - q[1]) + (p[2] - q[2]) * (p[2] - q[2])

\* Reading entity.dxf.<a> of an entity that does not have it raises.
ClassifyRaises(entity) == entity.dxftype = "CIRCLE" /\ ~HasAttr(entity, "radius")

ExtractRaises(entity) ==
    IF HasAttr(entity, "insert") THEN FALSE
    ELSE IF HasAttr(entity, "center") THEN ~HasAttr(entity, "radius")
    ELSE IF HasAttr(entity, "start") THEN ~HasAttr(entity, "end")
    ELSE FALSE

\* The properties dict: its keys, and the values of the positional keys.
extract_entity_properties(entity) ==
    LET base == {"type", "layer", "color"}
        pos  == IF HasAttr(entity, "insert") THEN {"position", "rotation", "scale"}
                ELSE IF HasAttr(entity, "center") THEN {"center", "radius"}
                ELSE IF HasAttr(entity, "start") THEN {"start", "end", "length"}
                ELSE {}
        txt  == IF entity.dxftype \in {"TEXT", "MTEXT"} THEN {"text", "height"} ELSE {}
        blk  == IF entity.dxftype = "INSERT" THEN {"block_name"} ELSE {}
    IN  [keys |-> base \cup pos \cup txt \cup blk,
         type |-> entity.dxftype,
         position |-> entity.insert,
         center |-> entity.center,
         start |-> entity.start,
         end |-> entity.end]

WireClasses == {"wire", "wire_path"}
ComponentClasses == {"switch", "outlet", "light", "electrical_panel"}

\* Whether a component has a comp_pos, and which.
HasCompPos(comp) ==
    "position" \in comp.properties.keys \/ "center" \in comp.properties.keys

CompPos(comp) ==
    IF "position" \in comp.properties.keys THEN comp.properties.position
    ELSE comp.properties.center

\* if start_dist < 1.0 or end_dist < 1.0
IsNear_Inclusive(start_dist, end_dist) ==
    start_dist <= ThresholdSq \/ end_dist <= ThresholdSq

IsNear(start_dist, end_dist) ==
    start_dist < ThresholdSq \/ end_dist < ThresholdSq

RECURSIVE ConnectedTo(_, _)
\* The inner loop: the connected_components list of one wire.
ConnectedTo(wire_props, components) ==
    IF components = <<>> THEN <<>>
    ELSE LET comp == Head(components)
             rest == ConnectedTo(wire_props, Tail(components))
         IN  IF HasCompPos(comp)
             THEN LET start_dist == DistSq(wire_props.start, CompPos(comp))
                      end_dist   == DistSq(wire_props.end, CompPos(comp))
                  IN  IF IsNear(start_dist, end_dist)
                      THEN << [component_id |-> comp.id,
                               component_type |-> comp.classification,
                               distance |-> Min(start_dist, end_dist)] >> \o rest
                      ELSE rest
             ELSE rest

\* WireConnected keeping only the nearest of the components in range.
WireConnected_NearestOnly(wire, components) ==
    IF "start" \in wire.properties.keys /\ "end" \in wire.properties.keys
    THEN LET all == ConnectedTo(wire.properties, components)
         IN  SelectSeq(all, LAMBDA c : \A i \in 1..Len(all) : c.distance <= all[i].distance)
    ELSE <<>>

WireConnected(wire, components) ==
    IF "start" \in wire.properties.keys /\ "end" \in wire.properties.keys
    THEN ConnectedTo(wire.properties, components)
    ELSE <<>>

RECURSIVE ConnectionsOf(_, _)
\* The outer loop over the wires.
ConnectionsOf(wires, components) ==
    IF wires = <<>> THEN <<>>
    ELSE LET wire == Head(wires)
             connected_components == WireConnected(wire, components)
             rest == ConnectionsOf(Tail(wires), components)
         IN  IF connected_components # <<>>
             THEN << [wire_id |-> wire.id,
                      connected_components |-> connected_components] >> \o rest
             ELSE rest

analyze_electrical_connections(entities) ==
    LET wires == SelectSeq(entities, LAMBDA e : e.classification \in WireClasses)
        components == SelectSeq(entities, LAMBDA e : e.classification \in ComponentClasses)
    IN  ConnectionsOf(wires, components)

\* The loop `for entity in msp': entity_id counts from 0.
EntityData(msp) ==
    [i \in 1..Len(msp) |->
        [id |-> i - 1,
         classification |-> classify_entity_type(msp[i]),
         properties |-> extract_entity_properties(msp[i])]]

EntityRaises(msp) ==
    \E i \in 1..Len(msp) : ClassifyRaises(msp[i]) \/ ExtractRaises(msp[i])

ErrorDict(msg, ks) ==
    [raised |-> FALSE, keys |-> {"error"} \cup ks, error |-> msg, entities |-> <<>>,
     connections |-> <<>>, statistics |-> <<>>]

FullKeys == {"entities", "entity_categories", "layer_info", "connections", "statistics"}

\* What a call that lets the exception out gives its caller.
Raised == [raised |-> TRUE, keys |-> {}, error |-> "", entities |-> <<>>,
           connections |-> <<>>, statistics |-> <<>>]

\* The body of the outer try, after ezdxf.readfile returned a document.
ParseDocument(msp) ==
    LET entities == EntityData(msp)
        connections == analyze_electrical_connections(entities)
        stats == << Len(entities),
                    Len(SelectSeq(entities, LAMBDA e : e.classification # "general")),
                    Len(connections) >>
    IN  [raised |-> FALSE,
         keys |-> FullKeys \cup {"drawing_info", "analysis_type"},
         error |-> "", entities |-> entities, connections |-> connections,
         statistics |-> stats]

\* parse_dxf without the outer `except Exception'.
parse_dxf_NoOuterExcept(file) ==
    CASE file.kind \in {"missing", "not_dxf", "pdf"} -> ErrorDict("Not a valid DXF file", {})
      [] file.kind = "corrupt" -> ErrorDict("Invalid or corrupted DXF file", {})
      [] file.kind = "read_fails" -> Raised
      [] OTHER -> IF EntityRaises(file.msp) THEN Raised ELSE ParseDocument(file.msp)

\* file.kind is what ezdxf.readfile meets at file_path: no file or a file that
\* is not a DXF, a PDF among them (IOError), a corrupt DXF (DXFStructureError),
\* any other exception, or a document with the modelspace file.msp.
parse_dxf(file) ==
    CASE file.kind \in {"missing", "not_dxf", "pdf"} -> ErrorDict("Not a valid DXF file", {})
      [] file.kind = "corrupt" -> ErrorDict("Invalid or corrupted DXF file", {})
      [] file.kind = "read_fails" -> ErrorDict("DXF parsing failed", FullKeys)
      [] OTHER -> IF EntityRaises(file.msp)
                  THEN ErrorDict("DXF parsing failed", FullKeys)
                  ELSE ParseDocument(file.msp)

(***************************************************************************)
(* parse_pdf.py: parse_pdf.  Its whole body is inside try/except Exception *)
(* and the first thing it does is create the extracted_images directory.   *)
(***************************************************************************)

PdfKeys == {"text_content", "extracted_images", "detected_components", "pdf_info",
            "ocr_available"}

parse_pdf(file) ==
    IF file.kind = "pdf"
    THEN [raised |-> FALSE,
          keys |-> PdfKeys \cup {"analysis_type", "message", "ocr_note"},
          error |-> "", entities |-> <<>>, connections |-> <<>>, statistics |-> <<>>]
    ELSE ErrorDict("PDF parsing failed", PdfKeys)

(***************************************************************************)
(* The scripts' __main__ blocks.  argv[1] is the script (Python's          *)
(* sys.argv[0]); Len(argv) is len(sys.argv).                               *)
(***************************************************************************)

\* The __main__ test with the comparison off by one.
NoPathGiven_OffByOne(args) == Len(args) < 1

\* len(sys.argv) < 2
NoPathGiven(args) == Len(args) < 2

\* What follows `if len(sys.argv) < 2' in either script; data is the value
\* parse_xxx(file_path) returns, evaluated only when it is called.
RunScript(script, data) ==
    IF NoPathGiven(argv)
    THEN /\ stdout' = << ErrorDict("File path required", {}) >>
         /\ exitCode' = 1
         /\ UNCHANGED <<parseCalls, fsTouched>>
    ELSE /\ parseCalls' = Append(parseCalls, script)
         /\ fsTouched' = TRUE
         /\ stdout' = IF data.raised THEN <<>> ELSE <<data>>
         /\ exitCode' = IF data.raised THEN 1 ELSE 0

MainDxf ==
    /\ exitCode = -1
    /\ argv # <<>>
    /\ argv[1] = "parse_dxf.py"
    /\ RunScript("parse_dxf.py", parse_dxf(disk))
    /\ UNCHANGED <<argv, disk, clsVars, syncVars, orgVars, upVars, toolVars>>

MainPdf ==
    /\ exitCode = -1
    /\ argv # <<>>
    /\ argv[1] = "parse_pdf.py"
    /\ RunScript("parse_pdf.py", parse_pdf(disk))
    /\ UNCHANGED <<argv, disk, clsVars, syncVars, orgVars, upVars, toolVars>>

(***************************************************************************)
(* The dataset-organising steps: prepare_training_data.py                  *)
(* organize_training_data, format_converter.py and extract_from_pdf.py     *)
(* prepare_training_dataset.  A split ratio is a fraction <<num, den>>     *)
(* with den > 0 (float rounding is not modelled); a file is a directory    *)
(* and a name; a name is text.                                             *)
(***************************************************************************)

\* int(x) for x = a / b, b > 0: truncation towards zero.
PyInt(a, b) == IF a >= 0 THEN a \div b ELSE -((-a) \div b)

\* The position a slice bound k denotes in a list of length n.
SliceBound(k, n) ==
    IF k < 0 THEN (IF n + k < 0 THEN 0 ELSE n + k) ELSE (IF k > n THEN n ELSE k)

\* lst[:k] and lst[k:]
SliceTo(lst, k) == SubSeq(lst, 1, SliceBound(k, Len(lst)))
SliceFrom(lst, k) == SubSeq(lst, SliceBound(k, Len(lst)) + 1, Len(lst))

\* int(len(files) * split_ratio), rounding up instead of truncating.
SplitPoint_RoundUp(n, ratio) == (n * ratio[1] + ratio[2] - 1) \div ratio[2]

\* int(len(files) * split_ratio)
SplitPoint(n, ratio) == PyInt(n * ratio[1], ratio[2])

\* The default of split_ratio and train_split: 0.8
DefaultRatio == <<4, 5>>

Digit(d) == CASE d = 0 -> "0" [] d = 1 -> "1" [] d = 2 -> "2" [] d = 3 -> "3"
              [] d = 4 -> "4" [] d = 5 -> "5" [] d = 6 -> "6" [] d = 7 -> "7"
              [] d = 8 -> "8" [] OTHER -> "9"

\* f"{i:03d}" for 0 <= i < 1000
Fmt03d(i) == << Digit(i \div 100), Digit((i \div 10) % 10), Digit(i % 10) >>

ext_jpg == <<".", "j", "p", "g">>
ext_txt == <<".", "t", "x", "t">>
ext_png == <<".", "p", "n", "g">>
str_train_img == <<"t","r","a","i","n","_","i","m","g","_">>
str_val_img == <<"v","a","l","_","i","m","g","_">>

\* The label name with the loop index used unshifted.
OrganizeLabelName_Unshifted(prefix, i) == prefix \o Fmt03d(i) \o ext_txt

\* f"..._img_{i+1:03d}.jpg" and f"..._img_{i+1:03d}.txt", i the enumerate index
OrganizeImageName(prefix, i) == prefix \o Fmt03d(i + 1) \o ext_jpg
OrganizeLabelName(prefix, i) == prefix \o Fmt03d(i + 1) \o ext_txt

RECURSIVE LastDot(_, _)
\* name.rfind(".") as a position from 1, 0 when there is none
LastDot(name, i) ==
    IF i = 0 THEN 0 ELSE IF name[i] = "." THEN i ELSE LastDot(name, i - 1)

\* pathlib's stem of a file name: the name without its last suffix.
PathStem(name) ==
    LET d == LastDot(name, Len(name))
    IN  IF d <= 1 \/ d = Len(name) THEN name ELSE SubSeq(name, 1, d - 1)

\* f'{img_path.stem}.txt'
StemLabelName(name) == PathStem(name) \o ext_txt

\* One pass of a copy loop of organize_training_data.
OrganizeCopies(files, imgDir, lblDir, prefix) ==
    [i \in 1..Len(files) |->
        [src |-> files[i],
         image |-> [dir |-> imgDir, name |-> OrganizeImageName(prefix, i - 1)],
         label |-> [dir |-> lblDir, name |-> OrganizeLabelName(prefix, i - 1)]]]

\* One pass of a copy loop of prepare_training_dataset (both classes).
PrepareCopies(files, imgDir, lblDir) ==
    [i \in 1..Len(files) |->
        [src |-> files[i],
         image |-> [dir |-> imgDir, name |-> files[i]],
         label |-> [dir |-> lblDir, name |-> StemLabelName(files[i])]]]

FilesOf(copies) ==
    { copies[i].image : i \in 1..Len(copies) } \cup { copies[i].label : i \in 1..Len(copies) }

\* The orders random.shuffle / np.random.shuffle can leave a list in.
Shuffles(lst) ==
    { [i \in 1..Len(lst) |-> lst[p[i]]] :
        p \in { q \in [1..Len(lst) -> 1..Len(lst)] :
                  \A i, j \in 1..Len(lst) : q[i] = q[j] => i = j } }

\* organize_training_data(image_files, split_ratio)
organize_training_data(image_files, shuffled, split_ratio) ==
    LET split_point == SplitPoint(Len(shuffled), split_ratio)
        train_files == SliceTo(shuffled, split_point)
        val_files == SliceFrom(shuffled, split_point)
        copies == OrganizeCopies(train_files, "dataset/images/train",
                                 "dataset/labels/train", str_train_img)
                  \o OrganizeCopies(val_files, "dataset/images/val",
                                    "dataset/labels/val", str_val_img)
    IN  /\ fs' = fs \cup FilesOf(copies)
        /\ orgCall' = [tool |-> orgCall.tool, fn |-> "organize_training_data",
                       input |-> image_files, ratio |-> split_ratio, copies |-> copies]
        /\ orgRet' = << Len(train_files), Len(val_files) >>

\* prepare_training_dataset(processed_images, train_split) of FormatConverter,
\* and of PDFDataExtractor after its glob of images/processed.
prepare_training_dataset(fn, processed_images, shuffled, train_split) ==
    IF processed_images = <<>>
    THEN /\ orgCall' = [tool |-> orgCall.tool, fn |-> fn, input |-> processed_images,
                        ratio |-> train_split, copies |-> <<>>]
         /\ orgRet' = <<"None">>
         /\ UNCHANGED fs
    ELSE LET split_idx == SplitPoint(Len(shuffled), train_split)
             train_images == SliceTo(shuffled, split_idx)
             val_images == SliceFrom(shuffled, split_idx)
             copies == PrepareCopies(train_images, "dataset/train/images",
                                     "dataset/train/labels")
                       \o PrepareCopies(val_images, "dataset/val/images",
                                        "dataset/val/labels")
         IN  /\ fs' = fs \cup FilesOf(copies)
             /\ orgCall' = [tool |-> orgCall.tool, fn |-> fn, input |-> processed_images,
                            ratio |-> train_split, copies |-> copies]
             /\ orgRet' = <<"None">>

\* parser.parse_args() when --train-split is not on the command line:
\* the default of the option, 0.8
NoTrainSplit == [given |-> FALSE, train_split |-> DefaultRatio]

(***************************************************************************)
(* sync_classes.py: sync_classes and validate_sync.  config is what        *)
(* yaml.safe_load gives: kind "ok" with the names mapping (a function from *)
(* its integer keys to str) and nc when has_nc.  Names that are not str    *)
(* are not modelled: sync_classes raises on them and writes nothing.       *)
(***************************************************************************)

str_reserved == <<"r","e","s","e","r","v","e","d","_">>
str_missing_class == <<"m","i","s","s","i","n","g","_","c","l","a","s","s","_">>

\* str(i) for 0 <= i <= 9
StrOfIndex(i) == << Digit(i) >>

\* config.get('nc', len(names))
NcOf(cfg) == IF cfg.has_nc THEN cfg.nc ELSE Cardinality(DOMAIN cfg.names)

\* The body of `for i in range(nc)' for one i, dropping reserved_ classes.
ClassLine_SkipReserved(names, i) ==
    IF i \in DOMAIN names
    THEN IF ~StartsWith(names[i], str_reserved) THEN <<names[i]>> ELSE <<>>
    ELSE << str_missing_class \o StrOfIndex(i) >>

\* The body of `for i in range(nc)' for one i: what it appends.
ClassLine(names, i) ==
    IF i \in DOMAIN names
    THEN IF ~StartsWith(names[i], str_reserved) THEN <<names[i]>> ELSE <<names[i]>>
    ELSE << str_missing_class \o StrOfIndex(i) >>

RECURSIVE ClassesFrom(_, _, _)
\* classes_content, built for i = from .. nc - 1
ClassesFrom(names, from, nc) ==
    IF from >= nc THEN <<>>
    ELSE ClassLine(names, from) \o ClassesFrom(names, from + 1, nc)

ClassesContent(cfg) == ClassesFrom(cfg.names, 0, NcOf(cfg))

RECURSIVE JoinLines(_)
\* '\n'.join(lines)
JoinLines(lines) ==
    IF lines = <<>> THEN <<>>
    ELSE IF Len(lines) = 1 THEN lines[1]
    ELSE lines[1] \o <<"\n">> \o JoinLines(Tail(lines))

\* classes_text
ClassesText(cfg) == JoinLines(ClassesContent(cfg)) \o <<"\n">>

TargetFiles == << "classes.txt", "dataset/classes.txt" >>

RECURSIVE FirstNewline(_, _)
\* The position of the first "\n" of text at or after i, 0 when there is none.
FirstNewline(text, i) ==
    IF i > Len(text) THEN 0
    ELSE IF text[i] = "\n" THEN i ELSE FirstNewline(text, i + 1)

RECURSIVE ReadLines(_)
\* f.readlines(): the lines of text, each with its terminator
ReadLines(text) ==
    IF text = <<>> THEN <<>>
    ELSE LET nl == FirstNewline(text, 1)
         IN  IF nl = 0 THEN <<text>>
             ELSE <<SubSeq(text, 1, nl)>> \o ReadLines(SubSeq(text, nl + 1, Len(text)))

Whitespace == {" ", "\n", "\t", "\r"}

RECURSIVE LStrip(_)
LStrip(t) == IF t # <<>> /\ Head(t) \in Whitespace THEN LStrip(Tail(t)) ELSE t

RECURSIVE RStrip(_)
RStrip(t) ==
    IF t # <<>> /\ t[Len(t)] \in Whitespace THEN RStrip(SubSeq(t, 1, Len(t) - 1)) ELSE t

\* str.strip()
Strip(t) == LStrip(RStrip(t))

\* [line.strip() for line in f.readlines() if line.strip()]
ActualClasses(text) ==
    LET lines == ReadLines(text)
        kept == SelectSeq(lines, LAMBDA line : Strip(line) # <<>>)
    IN  [i \in 1..Len(kept) |-> Strip(kept[i])]

\* expected_classes of validate_sync
ExpectedClasses(cfg) ==
    LET nc == NcOf(cfg)
    IN  [k \in 1..(IF nc < 0 THEN 0 ELSE nc) |->
            IF (k - 1) \in DOMAIN cfg.names THEN cfg.names[k - 1]
            ELSE str_missing_class \o StrOfIndex(k - 1)]

Missing == [exists |-> FALSE, content |-> <<>>]

\* sync_classes()
SyncClasses ==
    /\ config.kind # "none"
    /\ IF config.kind # "ok"
       THEN /\ syncRet' = "False"
            /\ UNCHANGED classesFiles
       ELSE LET classes_text == ClassesText(config)
                written == { t \in {TargetFiles[1], TargetFiles[2]} : t \in writable }
            IN  /\ classesFiles' =
                       [t \in DOMAIN classesFiles |->
                           IF t \in written
                           THEN [exists |-> TRUE, content |-> classes_text]
                           ELSE classesFiles[t]]
                /\ syncRet' = IF Cardinality(written) = Len(TargetFiles)
                              THEN "True" ELSE "False"
    /\ UNCHANGED <<config, writable, validateRet, clsVars, mainVars, orgVars, upVars, toolVars>>

\* What validate_sync() returns.
validate_sync(cfg, files) ==
    IF cfg.kind \in {"missing", "unreadable"} THEN "False"
    ELSE IF cfg.kind = "no_names" THEN "raised"
    ELSE IF \A i \in 1..Len(TargetFiles) :
                /\ files[TargetFiles[i]].exists
                /\ ActualClasses(files[TargetFiles[i]].content) = ExpectedClasses(cfg)
         THEN "True" ELSE "False"

ValidateSync ==
    /\ config.kind # "none"
    /\ validateRet' = validate_sync(config, classesFiles)
    /\ UNCHANGED <<config, classesFiles, writable, syncRet, clsVars, mainVars, orgVars, upVars, toolVars>>

(***************************************************************************)
(* backend.py: upload_file, handle_pdf, handle_dwg_dxf.  A request is      *)
(* [has_file, filename, content]: whether it has a 'file' part, the part's *)
(* filename, and what the uploaded bytes are ("pdf", "dxf" or "junk").     *)
(* secure_filename is werkzeug's, modelled by what it does to ASCII names. *)
(***************************************************************************)

\* The characters [A-Za-z0-9_.-] that occur in the modelled names.
FilenameChars == { "a", "b", "c", "d", "e", "f", "g", "p", "t", "w", "x",
                   "A", "D", "F", "P", "X", "0", "1", "_", ".", "-" }

RECURSIVE SplitWords(_, _)
\* filename.split(): the maximal runs of non-whitespace characters
SplitWords(text, word) ==
    IF text = <<>> THEN (IF word = <<>> THEN <<>> ELSE <<word>>)
    ELSE IF Head(text) \in Whitespace
         THEN (IF word = <<>> THEN <<>> ELSE <<word>>) \o SplitWords(Tail(text), <<>>)
         ELSE SplitWords(Tail(text), Append(word, Head(text)))

RECURSIVE JoinWith(_, _)
\* sep.join(parts)
JoinWith(parts, sep) ==
    IF parts = <<>> THEN <<>>
    ELSE IF Len(parts) = 1 THEN parts[1]
    ELSE parts[1] \o sep \o JoinWith(Tail(parts), sep)

RECURSIVE StripChars(_, _)
\* text.strip(chars)
StripChars(text, chars) ==
    IF text # <<>> /\ Head(text) \in chars THEN StripChars(Tail(text), chars)
    ELSE IF text # <<>> /\ text[Len(text)] \in chars
         THEN StripChars(SubSeq(text, 1, Len(text) - 1), chars)
         ELSE text

\* werkzeug.utils.secure_filename on an ASCII name
secure_filename(filename) ==
    LET noSep == [i \in 1..Len(filename) |->
                    IF filename[i] = "/" THEN " " ELSE filename[i]]
        joined == JoinWith(SplitWords(noSep, <<>>), <<"_">>)
        kept == SelectSeq(joined, LAMBDA c : c \in FilenameChars)
    IN  StripChars(kept, {".", "_"})

\* filename.split('.')[-1]
AfterLastDot(filename) ==
    SubSeq(filename, LastDot(filename, Len(filename)) + 1, Len(filename))

str_pdf == <<"p", "d", "f">>
str_dwg == <<"d", "w", "g">>
str_dxf == <<"d", "x", "f">>

\* The number of files the upload folder may hold before a further request.
MaxUploads == 2

\* `if file.filename == ""', testing for a missing name only.
NoSelectedFile_Never(filename) == FALSE

\* if file.filename == ''
NoSelectedFile(filename) == filename = <<>>

\* handle_pdf(filepath): fitz.open raises on bytes that are no document;
\* one page image is saved for the one page of a PDF.
handle_pdf(ext, content) ==
    IF content = "pdf"
    THEN [status |-> 200, body |-> "PDF processed",
          saved |-> << [ext |-> ext, page |-> FALSE], [ext |-> ext, page |-> TRUE] >>]
    ELSE [status |-> 500, body |-> "Internal Server Error",
          saved |-> << [ext |-> ext, page |-> FALSE] >>]

\* handle_dwg_dxf(filepath): ezdxf.readfile raises on bytes that are no DXF.
handle_dwg_dxf(ext, content) ==
    IF content = "dxf"
    THEN [status |-> 200, body |-> "DWG/DXF parsed",
          saved |-> << [ext |-> ext, page |-> FALSE] >>]
    ELSE [status |-> 500, body |-> "Internal Server Error",
          saved |-> << [ext |-> ext, page |-> FALSE] >>]

\* upload_file(): the response, the files saved and the handlers run.
upload_file(req) ==
    IF ~req.has_file
    THEN [status |-> 400, body |-> "No file part", saved |-> <<>>, ran |-> <<>>]
    ELSE IF NoSelectedFile(req.filename)
    THEN [status |-> 400, body |-> "No selected file", saved |-> <<>>, ran |-> <<>>]
    ELSE LET filename == secure_filename(req.filename)
             ext == Lower(AfterLastDot(filename))
         IN  IF ext = str_pdf
             THEN [ran |-> <<"handle_pdf">>] @@ handle_pdf(ext, req.content)
             ELSE IF ext \in {str_dwg, str_dxf}
             THEN [ran |-> <<"handle_dwg_dxf">>] @@ handle_dwg_dxf(ext, req.content)
             ELSE [status |-> 400, body |-> "Unsupported file type",
                   saved |-> << [ext |-> ext, page |-> FALSE] >>, ran |-> <<>>]

UploadFilenames ==
    { <<>>,
      <<"a", ".", "p", "d", "f">>,
      <<"a", ".", "P", "D", "F">>,
      <<"b", ".", "d", "x", "f">>,
      <<"c", ".", "d", "w", "g">>,
      <<"d", ".", "t", "x", "t">>,
      <<"p", "d", "f">>,
      <<".", ".", "/", "a", " ", "b", ".", "D", "x", "f">>,
      <<"a", ".", "p", "d", "f", ".">>,
      <<"a", ".", "p", "d", "f", ".", "e", "x", "e">>,
      <<" ">>,
      <<".">> }

Requests ==
    { [has_file |-> FALSE, filename |-> <<>>, content |-> "junk"] }
    \cup { [has_file |-> TRUE, filename |-> n, content |-> c] :
             n \in UploadFilenames, c \in {"pdf", "dxf", "junk"} }

\* POST /upload
Upload ==
    /\ Len(uploads) < MaxUploads
    /\ \E req \in Requests :
          LET r == upload_file(req)
          IN  /\ response' = [request |-> req, status |-> r.status, body |-> r.body]
              /\ uploads' = uploads \o r.saved
              /\ handlerRuns' = r.ran
    /\ UNCHANGED <<clsVars, mainVars, syncVars, orgVars, toolVars>>

\* GET /
Index ==
    /\ response' = [request |-> [has_file |-> FALSE, filename |-> <<"/">>,
                                 content |-> "none"],
                    status |-> 200, body |-> "ElectroVision AI Backend Running..."]
    /\ handlerRuns' = <<>>
    /\ UNCHANGED <<uploads, clsVars, mainVars, syncVars, orgVars, toolVars>>

(***************************************************************************)
(* ai_model/labelimg_final_fix.py: apply_final_fix, restore_backup.        *)
(* labelImg.py is held as its setValue call sites, in order: the receiver  *)
(* of each call (whether it starts with "self." and its last name) and how *)
(* many int( ) wrap its argument.  The six substitution patterns and the   *)
(* two unwrapping substitutions are applied to each call site as re.sub    *)
(* applies them to "recv.setValue(int(...(arg)...))".                      *)
(***************************************************************************)

\* s.endswith(p)
EndsWith(s, p) == Len(p) <= Len(s) /\ SubSeq(s, Len(s) - Len(p) + 1, Len(s)) = p

str_bar == <<"b", "a", "r">>
str_h_bar == <<"h", "_">> \o str_bar
str_v_bar == <<"v", "_">> \o str_bar

\* The patterns of patterns_to_fix that match a call site; each match wraps
\* the argument in one more int( ).
PatternsMatching(call) ==
    { "word" }
    \cup (IF call.self THEN { "self" } ELSE {})
    \cup (IF \E i \in 2..(Len(call.name) - 1) : call.name[i] = "_"
          THEN { "var_name" } ELSE {})
    \cup (IF EndsWith(call.name, str_h_bar) THEN { "h_bar" } ELSE {})
    \cup (IF EndsWith(call.name, str_v_bar) THEN { "v_bar" } ELSE {})
    \cup (IF EndsWith(call.name, str_bar) THEN { "bar" } ELSE {})

\* re.sub of int(int(x)) by int(x), and of setValue(int(int(x))) by
\* setValue(int(x)): the leftmost pair of a nest loses one int( ).
Unwrap(wraps) == IF wraps >= 2 THEN wraps - 1 ELSE wraps

\* The substitutions of apply_final_fix on the whole content.
FinalFix(content) ==
    [i \in 1..Len(content) |->
        [content[i] EXCEPT
            !.wraps = Unwrap(Unwrap(@ + Cardinality(PatternsMatching(content[i]))))]]

RECURSIVE fixes_applied(_)
\* fixes_applied: the matches of all patterns, summed
fixes_applied(content) ==
    IF content = <<>> THEN 0
    ELSE Cardinality(PatternsMatching(Head(content))) + fixes_applied(Tail(content))

\* The runs of the script before one more is started.
MaxFixRuns == 3

\* `if not backup_file.exists()', copying on every run.
BackupNeeded_Always(backup) == TRUE

\* if not backup_file.exists()
BackupNeeded(backup) == ~backup.exists

\* python labelimg_final_fix.py
ApplyFinalFix ==
    /\ Len(fixLog) < MaxFixRuns
    /\ IF ~labelimg_path \/ ~main_file.exists
       THEN /\ fixLog' = Append(fixLog, <<"fix", FALSE>>)
            /\ UNCHANGED <<main_file, backup_file>>
       ELSE /\ backup_file' = IF BackupNeeded(backup_file) THEN main_file
                              ELSE backup_file
            /\ main_file' = [exists |-> TRUE, content |-> FinalFix(main_file.content)]
            /\ fixLog' = Append(fixLog, <<"fix", fixes_applied(main_file.content) > 0>>)
    /\ UNCHANGED <<labelimg_path, installed>>
    /\ UNCHANGED <<clsVars, mainVars, syncVars, orgVars, upVars, trainVars, sampleVars, cocoVars>>

\* python labelimg_final_fix.py restore
RestoreBackup ==
    /\ Len(fixLog) < MaxFixRuns
    /\ IF labelimg_path /\ backup_file.exists
       THEN /\ main_file' = backup_file
            /\ fixLog' = Append(fixLog, <<"restore", TRUE>>)
       ELSE /\ fixLog' = Append(fixLog, <<"restore", FALSE>>)
            /\ UNCHANGED main_file
    /\ UNCHANGED <<labelimg_path, backup_file, installed>>
    /\ UNCHANGED <<clsVars, mainVars, syncVars, orgVars, upVars, trainVars, sampleVars, cocoVars>>

(***************************************************************************)
(* ai_model/train.py: ElectricalComponentTrainer.load_config,              *)
(* check_validation_data, create_dynamic_config, train_model.              *)
(* trainEnv holds what the trainer finds: cuda = [available, memory (GB),  *)
(* test_ok, to_ok], the file names of dataset/images/val, the files of     *)
(* dataset/labels/val with their sizes, and for each successive            *)
(* model.train call what it does: <<"ok">> or <<"raise", exception>>.      *)
(* An exception is [type, msg]; NotImplementedError is a subclass of       *)
(* RuntimeError, and the type is the class the instance was made from.     *)
(***************************************************************************)

str_nms == <<"t", "o", "r", "c", "h", "v", "i", "s", "i", "o", "n", ":", ":", "n", "m", "s">>
str_CUDA == <<"C", "U", "D", "A">>
str_out_of_memory == <<"o", "u", "t", " ", "o", "f", " ", "m", "e", "m", "o", "r", "y">>
str_no_cuda == <<"n", "o", " ", "C", "U", "D", "A">>

\* GPU memory below which load_config lowers the batch size (GB)
LoadConfigMemory == 6
\* GPU memory below which train_model lowers the batch size (GB)
TrainModelMemory == 8
\* The batch size either of them lowers it to
RecommendedBatch == 8

\* load_config: the device and the batch size after construction
load_config(cuda, batch_size) ==
    IF cuda.available
    THEN [device |-> "cuda:0",
          batch_size |-> IF cuda.memory < LoadConfigMemory
                         THEN Min(batch_size, RecommendedBatch) ELSE batch_size]
    ELSE [device |-> "cpu", batch_size |-> batch_size]

\* val_dir.glob(ext) for ext in val_image_extensions
val_image_extensions ==
    { <<".", "p", "n", "g">>, <<".", "j", "p", "g">>, <<".", "j", "p", "e", "g">>,
      <<".", "b", "m", "p">>, <<".", "t", "i", "f", "f">> }

\* check_validation_data()
check_validation_data(env) ==
    LET val_images == { n \in env.val_images :
                          \E ext \in val_image_extensions : EndsWith(n, ext) }
        val_labels == { f \in env.val_labels : EndsWith(f.name, ext_txt) }
        valid_labels == { f \in val_labels : f.size > 0 }
    IN  Cardinality(val_images) > 0 /\ Cardinality(valid_labels) > 0

\* create_dynamic_config(use_validation), giving 'val' the val directory always.
create_dynamic_config_AlwaysVal(use_validation) ==
    [train |-> "dataset/images/train", val |-> "dataset/images/val"]

\* create_dynamic_config(use_validation): the content of dataset_dynamic.yaml
create_dynamic_config(use_validation) ==
    [train |-> "dataset/images/train",
     val |-> IF use_validation THEN "dataset/images/val" ELSE "dataset/images/train"]

\* train_model(): the configuration it leaves, the model.train calls it
\* makes, how it ends and the dataset_dynamic.yaml it leaves behind.
train_model(env, self_config) ==
    LET cuda == env.cuda
        use_validation == check_validation_data(env)
        data == create_dynamic_config(use_validation)
        batch_size == IF cuda.available /\ cuda.memory < TrainModelMemory
                      THEN Min(self_config.batch_size, RecommendedBatch)
                      ELSE self_config.batch_size
        tested == IF cuda.available /\ ~cuda.test_ok THEN "cpu" ELSE self_config.device
        device == IF cuda.available /\ tested = "cuda:0" /\ ~cuda.to_ok
                  THEN "cpu" ELSE tested
        ready == [device |-> device, batch_size |-> batch_size]
        Call(d, b) == [data |-> data, device |-> d, batch |-> b, val |-> use_validation]
        first == Call(device, batch_size)
        Return(cfg, calls) ==
            [config |-> cfg, calls |-> calls, ret |-> <<"return">>, yaml |-> Missing]
        Raise(cfg, calls, e) ==
            [config |-> cfg, calls |-> calls, ret |-> <<"raise", e>>,
             yaml |-> [exists |-> TRUE, content |-> data]]
        Retry(cfg, second) ==
            IF env.outcomes[2] = <<"ok">>
            THEN Return(cfg, <<first, second>>)
            ELSE Raise(cfg, <<first, second>>, env.outcomes[2][2])
    IN  IF env.outcomes[1] = <<"ok">> THEN Return(ready, <<first>>)
        ELSE LET e == env.outcomes[1][2]
             IN  IF e.type = "NotImplementedError"
                 THEN IF Contains(e.msg, str_nms) /\ Contains(e.msg, str_CUDA)
                      THEN Retry([ready EXCEPT !.device = "cpu"], Call("cpu", batch_size))
                      ELSE Raise(ready, <<first>>, e)
                 ELSE IF e.type = "RuntimeError"
                 THEN IF Contains(Lower(e.msg), str_out_of_memory)
                      THEN IF cuda.available
                           THEN Retry(ready, Call(device,
                                        IF batch_size \div 2 > 1 THEN batch_size \div 2 ELSE 1))
                           \* torch.cuda.get_device_properties(0) raises without CUDA
                           ELSE Raise(ready, <<first>>,
                                      [type |-> "AssertionError", msg |-> str_no_cuda])
                      ELSE Raise(ready, <<first>>, e)
                 ELSE Raise(ready, <<first>>, e)

\* trainer.train_model()
TrainModel ==
    /\ trainRet = <<>>
    /\ LET r == train_model(trainEnv, trainerConfig)
       IN  /\ trainerConfig' = r.config
           /\ trainCalls' = r.calls
           /\ trainRet' = r.ret
           /\ dynamic_config' = r.yaml
    /\ UNCHANGED <<trainEnv, clsVars, mainVars, syncVars, orgVars, upVars, fixVars, sampleVars, cocoVars>>

(***************************************************************************)
(* ai_model/get_sample_data.py: create_sample_electrical_plan,             *)
(* create_yolo_label, generate_sample_dataset, main.  A number written     *)
(* with the format .6f is held as the integer count of millionths that     *)
(* the text shows.                                                         *)
(***************************************************************************)

\* create_sample_electrical_plan(filename, width, height): the components
\* returned, (class_id, center_x, center_y, width, height) each; the wire's
\* centre is the midpoint of its two end points.
create_sample_electrical_plan(width, height) ==
    << <<0, 150, 100, 30, 20>>,
       <<1, 300, 150, 30, 20>>,
       <<2, 400, 300, 40, 40>>,
       <<3, 100, 400, 60, 80>>,
       <<4, ((150 + 15) + (400 - 20)) \div 2, (100 + 300) \div 2, 200, 5>>,
       <<5, 250, 200, 10, 10>>,
       <<7, 500, 500, 20, 20>> >>

\* f"{n / d:.6f}" for integers n >= 0 and d > 0, in millionths
Fmt6f(n, d) == (2 * n * 1000000 + d) \div (2 * d)

\* create_yolo_label(components, img_width, img_height, label_filename):
\* the lines written
create_yolo_label(components, img_width, img_height) ==
    [i \in 1..Len(components) |->
        << components[i][1],
           Fmt6f(components[i][2], img_width), Fmt6f(components[i][3], img_height),
           Fmt6f(components[i][4], img_width), Fmt6f(components[i][5], img_height) >>]

\* num_images of main's call of generate_sample_dataset
TrainSamples == 15
\* range(3) of main's validation loop
ValSamples == 3

\* random.randint(600, 1000) and random.randint(400, 800), at and around the
\* ends of the ranges and the sizes of the plan drawn
SampleWidths == { 600, 601, 800, 999, 1000 }
SampleHeights == { 400, 401, 439, 440, 441, 499, 500, 501, 509, 510, 511, 600, 799, 800 }

str_sample_plan == <<"s", "a", "m", "p", "l", "e", "_", "p", "l", "a", "n", "_">>
str_val_plan == <<"v", "a", "l", "_", "p", "l", "a", "n", "_">>

\* One sample: the image and the label file of the given stem
WriteSample(dir, stem, width, height) ==
    [image |-> <<"dataset/images/" \o dir, stem \o ext_jpg>>,
     label |-> <<"dataset/labels/" \o dir, stem \o ext_txt>>,
     width |-> width, height |-> height,
     lines |-> create_yolo_label(create_sample_electrical_plan(width, height),
                                 width, height)]

\* generate_sample_dataset(num_images=15): one turn of its loop
GenerateSample ==
    /\ samplesMade[1] < TrainSamples
    /\ \E width \in SampleWidths, height \in SampleHeights :
          lastSample' = WriteSample("train", str_sample_plan \o Fmt03d(samplesMade[1] + 1),
                                    width, height)
    /\ samplesMade' = <<samplesMade[1] + 1, samplesMade[2]>>
    /\ UNCHANGED <<clsVars, mainVars, syncVars, orgVars, upVars, fixVars, trainVars, cocoVars>>

\* main(): one turn of its validation loop
GenerateValSample ==
    /\ samplesMade[1] = TrainSamples
    /\ samplesMade[2] < ValSamples
    /\ \E width \in SampleWidths, height \in SampleHeights :
          lastSample' = WriteSample("val", str_val_plan \o Fmt03d(samplesMade[2] + 1),
                                    width, height)
    /\ samplesMade' = <<samplesMade[1], samplesMade[2] + 1>>
    /\ UNCHANGED <<clsVars, mainVars, syncVars, orgVars, upVars, fixVars, trainVars, cocoVars>>

(***************************************************************************)
(* data-prep/format_converter.py: FormatConverter.convert_coco_to_yolo and *)
(* get_class_id.  A label file is [name, lines]; a line is                 *)
(* <<class_id, x_center, y_center, norm_width, norm_height>>, the four     *)
(* numbers in the millionths that .6f writes.                              *)
(***************************************************************************)

\* class_mapping of get_class_id, as (name, id) pairs
class_mapping ==
    { <<<<"s", "w", "i", "t", "c", "h">>, 0>>,
      <<<<"o", "u", "t", "l", "e", "t">>, 1>>,
      <<<<"l", "i", "g", "h", "t">>, 2>>,
      <<<<"p", "a", "n", "e", "l">>, 3>>,
      <<<<"w", "i", "r", "e">>, 4>>,
      <<<<"j", "u", "n", "c", "t", "i", "o", "n">>, 5>>,
      <<<<"b", "r", "e", "a", "k", "e", "r">>, 6>>,
      <<<<"g", "r", "o", "u", "n", "d">>, 7>>,
      <<<<"m", "e", "a", "s", "u", "r", "e", "m", "e", "n", "t">>, 8>>,
      <<<<"m", "o", "t", "o", "r">>, 9>>,
      <<<<"t", "r", "a", "n", "s", "f", "o", "r", "m", "e", "r">>, 10>>,
      <<<<"s", "e", "n", "s", "o", "r">>, 11>> }

\* get_class_id(class_name): class_mapping.get(class_name.lower(), 0)
get_class_id(class_name) ==
    IF \E m \in class_mapping : m[1] = Lower(class_name)
    THEN (CHOOSE m \in class_mapping : m[1] = Lower(class_name))[2]
    ELSE 0

\* {cat['id']: cat['name'] for cat in coco_data['categories']}: the name the
\* dict holds for an id is that of the last category with the id
CategoryName(cats, id) ==
    LET at == { i \in 1..Len(cats) : cats[i].id = id }
    IN  cats[CHOOSE i \in at : \A j \in at : j <= i].name

\* image_annotations[img_id]: the annotations of an image id, in file order
image_annotations(data, img_id) ==
    SelectSeq(data.annotations, LAMBDA ann : ann.image_id = img_id)

\* The body of `for ann in image_annotations[img_id]' raises: KeyError for a
\* category_id that is no category, ZeroDivisionError for a size of 0.
AnnotationRaises(data, img_info, ann) ==
    \/ \A i \in 1..Len(data.categories) : data.categories[i].id # ann.category_id
    \/ img_info.width = 0
    \/ img_info.height = 0

\* The line appended for one annotation: (x + w/2) / img_width is
\* (2x + w) / (2 img_width)
YoloLine(data, img_info, ann) ==
    << get_class_id(CategoryName(data.categories, ann.category_id)),
       Fmt6f(2 * ann.bbox[1] + ann.bbox[3], 2 * img_info.width),
       Fmt6f(2 * ann.bbox[2] + ann.bbox[4], 2 * img_info.height),
       Fmt6f(ann.bbox[3], img_info.width),
       Fmt6f(ann.bbox[4], img_info.height) >>

\* open(yolo_path, 'w') and write: the file of that name is replaced
WriteFile(dir, name, lines) ==
    { f \in dir : f.name # name } \cup { [name |-> name, lines |-> lines] }

RECURSIVE ConvertImages(_, _, _)
\* `for img_info in coco_data['images']' from the k-th image on: the
\* directory and the message logged when the loop ends or an annotation
\* raises
ConvertImages(data, k, dir) ==
    IF k > Len(data.images)
    THEN [dir |-> dir, log |-> "Successfully converted COCO annotations to YOLO format"]
    ELSE LET img_info == data.images[k]
             anns == image_annotations(data, img_info.id)
         IN  IF \E i \in 1..Len(anns) : AnnotationRaises(data, img_info, anns[i])
             THEN [dir |-> dir, log |-> "Error converting COCO to YOLO"]
             ELSE ConvertImages(data, k + 1,
                      WriteFile(dir, PathStem(img_info.file_name) \o ext_txt,
                                [i \in 1..Len(anns) |-> YoloLine(data, img_info, anns[i])]))

\* converter.convert_coco_to_yolo(coco_json, images_dir)
ConvertCocoToYolo ==
    /\ cocoLog = "none"
    /\ LET r == IF cocoData.loads THEN ConvertImages(cocoData, 1, yoloDir)
                \* open() or json.load raises
                ELSE [dir |-> yoloDir, log |-> "Error converting COCO to YOLO"]
       IN  yoloDir' = r.dir /\ cocoLog' = r.log
    /\ UNCHANGED <<cocoData, clsVars, mainVars, syncVars, orgVars, upVars,
                   fixVars, trainVars, sampleVars>>

(***************************************************************************)
(* Each script is run on its own: a specification starts one of them and   *)
(* leaves the state of the others at rest.                                 *)
(***************************************************************************)

Origin == <<0, 0>>

NoEntity == [dxftype |-> "NONE", has |-> {}, radius |-> 0, name |-> <<>>,
             insert |-> Origin, center |-> Origin, start |-> Origin,
             end |-> Origin]

ClsAtRest  == clsEntity = NoEntity /\ clsResult = "none"
MainAtRest == /\ argv = <<>> /\ disk = [kind |-> "none"] /\ stdout = <<>>
              /\ exitCode = -1 /\ parseCalls = <<>> /\ fsTouched = FALSE
SyncAtRest == /\ config = [kind |-> "none"] /\ classesFiles = <<>> /\ writable = {}
              /\ syncRet = "none" /\ validateRet = "none"
OrgAtRest  == /\ fs = {} /\ orgCall = [tool |-> "none"] /\ orgRet = <<>>
              /\ cliArgs = NoTrainSplit
UpAtRest   == uploads = <<>> /\ response = [status |-> 0] /\ handlerRuns = <<>>
FixAtRest  == /\ labelimg_path = FALSE /\ main_file = Missing /\ backup_file = Missing
              /\ installed = Missing /\ fixLog = <<>>
TrainAtRest == /\ trainEnv = [cuda |-> "none"] /\ trainerConfig = [device |-> "none"]
               /\ trainCalls = <<>> /\ trainRet = <<>> /\ dynamic_config = Missing
SampleAtRest == samplesMade = <<0, 0>> /\ lastSample = [label |-> <<>>]
CocoAtRest == cocoData = [images |-> <<>>] /\ yoloDir = {} /\ cocoLog = "none"
ToolsAtRest == FixAtRest /\ TrainAtRest /\ SampleAtRest /\ CocoAtRest

(***************************************************************************)
(* SpecClassify: classify_entity_type applied to one entity.               *)
(***************************************************************************)

\* The number of fragments a generated block name is made of.
MaxFrags == 2

NameFragments ==
    { kw_switch, kw_sw, <<"S","W">>, kw_outlet, kw_socket, kw_receptacle,
      kw_light, kw_lamp, kw_fixture, kw_panel, kw_board,
      <<"s">>, <<"w">>, <<"x">>, <<"_">>, <<"P","a","n","e","l">> }

BlockNames ==
    UNION { { Concat(fs_) : fs_ \in [1..n -> NameFragments] } : n \in 0..MaxFrags }

DxfTypes == { "CIRCLE", "INSERT", "LINE", "POLYLINE", "LWPOLYLINE", "TEXT",
              "MTEXT", "RECTANGLE", "ARC", "ELLIPSE", "HATCH", "SPLINE" }

\* Radii in hundredths, on and around the limits.
Radii == { -10, 0, 9, 10, 11, 30, 50, 51, 75, 100, 101, 250 }

ClsEntities ==
    { [NoEntity EXCEPT !.dxftype = t] : t \in DxfTypes \ {"CIRCLE", "INSERT"} }
    \cup { [NoEntity EXCEPT !.dxftype = "CIRCLE", !.has = {"radius"}, !.radius = r] :
              r \in Radii }
    \cup { [NoEntity EXCEPT !.dxftype = "INSERT", !.has = {"name"}, !.name = n] :
              n \in BlockNames }
    \cup { [NoEntity EXCEPT !.dxftype = "INSERT"] }

InitClassify ==
    /\ clsEntity \in ClsEntities
    /\ clsResult = "none"
    /\ MainAtRest /\ SyncAtRest /\ OrgAtRest /\ UpAtRest /\ ToolsAtRest

Classify ==
    /\ clsResult = "none"
    /\ clsEntity # NoEntity
    /\ clsResult' = classify_entity_type(clsEntity)
    /\ UNCHANGED <<clsEntity, mainVars, syncVars, orgVars, upVars, toolVars>>

NextClassify == Classify

SpecClassify == InitClassify /\ [][NextClassify]_vars

\* C1: classify_entity_type gives every entity exactly one category, decided
\* by its dxftype, its radius (CIRCLE) or its lower-cased block name (INSERT):
\* the fixed category of the dxftype, the radius band of a circle, or the
\* first keyword group, in the order switch, outlet, light, electrical_panel,
\* one of whose keywords occurs in the block name; 'electrical_symbol' for an
\* INSERT that matches no group and 'general' for every other dxftype.
C1_Groups ==
    << <<"switch", {kw_switch, kw_sw}>>,
       <<"outlet", {kw_outlet, kw_socket, kw_receptacle}>>,
       <<"light", {kw_light, kw_lamp, kw_fixture}>>,
       <<"electrical_panel", {kw_panel, kw_board}>> >>

C1_Categories ==
    { "wire", "wire_path", "annotation", "panel", "outlet", "light_fixture",
      "general_circle", "switch", "light", "electrical_panel",
      "electrical_symbol", "general" }

C1_Matches(e, g) ==
    \E k \in C1_Groups[g][2] :
        Contains(IF "name" \in e.has THEN Lower(e.name) ELSE str_unknown, k)

C1_Expected(e, c) ==
    CASE e.dxftype = "LINE" -> c = "wire"
      [] e.dxftype \in {"POLYLINE", "LWPOLYLINE"} -> c = "wire_path"
      [] e.dxftype \in {"TEXT", "MTEXT"} -> c = "annotation"
      [] e.dxftype = "RECTANGLE" -> c = "panel"
      [] e.dxftype = "CIRCLE" ->
            /\ (c = "outlet") <=> (10 <= e.radius /\ e.radius <= 50)
            /\ (c = "light_fixture") <=> (50 < e.radius /\ e.radius <= 100)
            /\ (c = "general_circle") <=> (e.radius < 10 \/ e.radius > 100)
      [] e.dxftype = "INSERT" ->
            /\ \A g \in 1..4 :
                  (c = C1_Groups[g][1]) <=>
                      (C1_Matches(e, g) /\ \A h \in 1..(g - 1) : ~C1_Matches(e, h))
            /\ (c = "electrical_symbol") <=> (\A g \in 1..4 : ~C1_Matches(e, g))
      [] OTHER -> c = "general"

C1_ClassifyTotal ==
    clsResult # "none" =>
        /\ clsResult \in C1_Categories
        /\ C1_Expected(clsEntity, clsResult)

\* An INSERT whose name holds a keyword of two groups has been classified.
C1_Witness ==
    /\ clsResult = "switch"
    /\ clsEntity.dxftype = "INSERT"
    /\ C1_Matches(clsEntity, 1) /\ C1_Matches(clsEntity, 2)

(***************************************************************************)
(* SpecParse: one run of parse_dxf.py or parse_pdf.py.                     *)
(***************************************************************************)

\* The number of entities in a generated modelspace.
MaxEntities == 3

\* Points in halves of a unit: P1 is 0.707 from P0 and from P2; P2 is
\* exactly 1.0 from P0.
P0 == <<0, 0>>
P1 == <<1, 1>>
P2 == <<2, 0>>
Points == {P0, P1, P2}

Line(a, b) == [NoEntity EXCEPT !.dxftype = "LINE", !.has = {"start", "end"},
                               !.start = a, !.end = b]
Insert(n, p) == [NoEntity EXCEPT !.dxftype = "INSERT", !.has = {"name", "insert"},
                                 !.name = n, !.insert = p]
Circle(r, p) == [NoEntity EXCEPT !.dxftype = "CIRCLE", !.has = {"center", "radius"},
                                 !.radius = r, !.center = p]

ParseEntities ==
    { Line(P0, P0), Line(P0, P2), Line(P1, P2), Line(P2, P2) }
    \cup { [NoEntity EXCEPT !.dxftype = "LINE", !.has = {"start"}] }
    \cup { Insert(<<"S","W">>, p) : p \in Points }
    \cup { Insert(kw_lamp, P1), Insert(<<"x">>, P0) }
    \cup { Circle(30, P0), Circle(30, P2), Circle(75, P0) }
    \cup { [NoEntity EXCEPT !.dxftype = "CIRCLE", !.has = {"center"}] }
    \cup { [NoEntity EXCEPT !.dxftype = "LWPOLYLINE"],
           [NoEntity EXCEPT !.dxftype = "TEXT"],
           [NoEntity EXCEPT !.dxftype = "HATCH"] }

Modelspaces == UNION { [1..n -> ParseEntities] : n \in 0..MaxEntities }

OtherFiles == { [kind |-> k, msp |-> <<>>] :
                  k \in {"missing", "not_dxf", "corrupt", "read_fails", "pdf"} }

DxfFiles == { [kind |-> "dxf", msp |-> m] : m \in Modelspaces }

InitParse ==
    /\ \/ /\ argv = <<"parse_dxf.py", "plan">>
          /\ disk \in DxfFiles \cup OtherFiles
       \/ /\ argv \in { <<"parse_dxf.py">>, <<"parse_pdf.py">>, <<"parse_pdf.py", "plan">> }
          /\ disk \in OtherFiles \cup { [kind |-> "dxf", msp |-> <<Line(P0, P2)>>] }
    /\ stdout = <<>> /\ exitCode = -1 /\ parseCalls = <<>> /\ fsTouched = FALSE
    /\ ClsAtRest /\ SyncAtRest /\ OrgAtRest /\ UpAtRest /\ ToolsAtRest

NextParse == MainDxf \/ MainPdf

SpecParse == InitParse /\ [][NextParse]_vars

\* The dict parse_dxf returned to a run that completed the parse.
C_DxfDone ==
    /\ parseCalls = <<"parse_dxf.py">>
    /\ stdout # <<>>
    /\ "error" \notin stdout[1].keys

C_Range(seq) == { seq[i] : i \in 1..Len(seq) }

C_Wires == { e \in C_Range(stdout[1].entities) :
               /\ e.classification \in {"wire", "wire_path"}
               /\ {"start", "end"} \subseteq e.properties.keys }

C_Components == { e \in C_Range(stdout[1].entities) :
                    /\ e.classification \in {"switch", "outlet", "light", "electrical_panel"}
                    /\ e.properties.keys \cap {"position", "center"} # {} }

C_Pos(c) == IF "position" \in c.properties.keys
            THEN c.properties.position ELSE c.properties.center

\* The squared distance from a component to the nearer endpoint of a wire.
C_Dist(w, c) ==
    LET ds == (w.properties.start[1] - C_Pos(c)[1]) * (w.properties.start[1] - C_Pos(c)[1])
              + (w.properties.start[2] - C_Pos(c)[2]) * (w.properties.start[2] - C_Pos(c)[2])
        de == (w.properties.end[1] - C_Pos(c)[1]) * (w.properties.end[1] - C_Pos(c)[1])
              + (w.properties.end[2] - C_Pos(c)[2]) * (w.properties.end[2] - C_Pos(c)[2])
    IN  IF ds < de THEN ds ELSE de

\* The connected_components entries recorded for wire w.
C_Reported(w) ==
    UNION { C_Range(conn.connected_components) :
              conn \in { k \in C_Range(stdout[1].connections) : k.wire_id = w.id } }

\* C2: a component is listed in a wire's connected_components if and only if
\* it is less than 1.0 from the wire's start or end point, and the distance
\* recorded for it is the smaller of the two distances, so below 1.0.
C2_ListedIffWithinThreshold ==
    C_DxfDone =>
        \A w \in C_Wires :
            /\ \A c \in C_Components :
                  (\E r \in C_Reported(w) : r.component_id = c.id) <=> (C_Dist(w, c) < 4)
            /\ \A r \in C_Reported(w) :
                  /\ r.distance < 4
                  /\ \E c \in C_Components :
                        c.id = r.component_id /\ r.distance = C_Dist(w, c)
                        /\ r.component_type = c.classification

\* A wire with one component listed and another exactly 1.0 away left out.
C2_Witness ==
    /\ C_DxfDone
    /\ \E w \in C_Wires : \E c, d \in C_Components :
          /\ C_Dist(w, c) = 4
          /\ \E r \in C_Reported(w) : r.component_id = d.id
          /\ ~ \E r \in C_Reported(w) : r.component_id = c.id

\* C3 as stated: only the component nearest to a wire is reported for it; a
\* component farther from the wire than another component is not reported.
C3_NearestOnly ==
    C_DxfDone =>
        \A w \in C_Wires : \A r \in C_Reported(w) : \A c \in C_Components :
            r.distance <= C_Dist(w, c)

\* C3 as amended: every component within the threshold of a wire endpoint is
\* reported for the wire: the nearest one whenever it is within the
\* threshold, and with it every farther component that is within the
\* threshold too; as many are reported as lie within the threshold.
C3_AllWithinThreshold ==
    C_DxfDone =>
        \A w \in C_Wires :
            LET inRange == { c \in C_Components : C_Dist(w, c) < 4 }
                nearest == { c \in C_Components :
                               \A d \in C_Components : C_Dist(w, c) <= C_Dist(w, d) }
            IN  /\ { r.component_id : r \in C_Reported(w) } = { c.id : c \in inRange }
                /\ \A c \in nearest \cap inRange :
                      \E r \in C_Reported(w) : r.component_id = c.id
                /\ \A conn \in C_Range(stdout[1].connections) :
                      conn.wire_id = w.id =>
                          Len(conn.connected_components) = Cardinality(inRange)

\* A wire for which two components at different distances are both reported.
C3_Witness ==
    /\ C_DxfDone
    /\ \E w \in C_Wires : \E r, q \in C_Reported(w) : r.distance < q.distance

\* The parse completes when readfile returns a document and no entity's
\* classification or property extraction raises.
C4_Completes ==
    /\ disk.kind = "dxf"
    /\ \A i \in 1..Len(disk.msp) :
          ~ClassifyRaises(disk.msp[i]) /\ ~ExtractRaises(disk.msp[i])

\* C4: parse_dxf never lets an exception escape: whatever the file holds it
\* returns a dict, and the dict has the key 'error' exactly when the parse
\* did not complete.
C4_ErrorIffIncomplete ==
    parseCalls = <<"parse_dxf.py">> =>
        /\ exitCode = 0
        /\ Len(stdout) = 1
        /\ ~stdout[1].raised
        /\ ("error" \in stdout[1].keys) <=> ~C4_Completes
        /\ C4_Completes => Len(stdout[1].entities) = Len(disk.msp)

\* A document one of whose entities fails has been parsed into an error dict.
C4_Witness ==
    /\ parseCalls = <<"parse_dxf.py">>
    /\ disk.kind = "dxf"
    /\ \E i \in 1..Len(disk.msp) : ExtractRaises(disk.msp[i])
    /\ stdout # <<>>
    /\ "error" \in stdout[1].keys

\* C5: run with no file-path argument, parse_pdf.py and parse_dxf.py print
\* {"error": "File path required"}, exit with status 1, call no parse
\* function and touch no file.
C5_NoPathExitsOne ==
    (exitCode # -1 /\ Len(argv) = 1) =>
        /\ Len(stdout) = 1
        /\ stdout[1].keys = {"error"}
        /\ stdout[1].error = "File path required"
        /\ exitCode = 1
        /\ parseCalls = <<>>
        /\ ~fsTouched

\* parse_pdf.py has been run with no argument.
C5_Witness ==
    /\ argv = <<"parse_pdf.py">>
    /\ exitCode = 1
    /\ stdout # <<>>

(***************************************************************************)
(* SpecOrganize: runs of one of the three dataset-organising scripts on    *)
(* its own output directory.                                               *)
(***************************************************************************)

\* The number of images handed to one organising call.
MaxImages == 2

\* Split ratios as fractions: 0, 0.5, 0.8, 1, and the out-of-range 1.5, -0.5.
Ratios == { <<0, 1>>, <<1, 2>>, <<4, 5>>, <<1, 1>>, <<3, 2>>, <<-1, 2>> }

\* Paths of extracted images (prepare_training_data.py).
ExtractedImages == { <<"x", ".", "j", "p", "g">>, <<"y", ".", "j", "p", "g">> }

\* Names of processed images: a.png and b.v.png.
ProcessedImages == { <<"a">> \o ext_png, <<"b", ".", "v">> \o ext_png }

ListsOf(S) == UNION { [1..n -> S] : n \in 0..MaxImages }

NoRepeat(lst) == \A i, j \in 1..Len(lst) : lst[i] = lst[j] => i = j

InitOrganize ==
    /\ orgCall \in { [tool |-> t] : t \in { "prepare_training_data.py",
                                            "format_converter.py",
                                            "extract_from_pdf.py" } }
    /\ fs = {}
    /\ orgRet = <<>>
    /\ cliArgs = NoTrainSplit
    /\ ClsAtRest /\ MainAtRest /\ SyncAtRest /\ UpAtRest /\ ToolsAtRest

\* prepare_training_data.py: organize_training_data, as main calls it with
\* args.split or as any caller does.
OrganizeTrainingData ==
    /\ orgCall.tool = "prepare_training_data.py"
    /\ \E image_files \in ListsOf(ExtractedImages) :
       \E shuffled \in Shuffles(image_files) :
       \E split_ratio \in Ratios :
           organize_training_data(image_files, shuffled, split_ratio)
    /\ UNCHANGED <<cliArgs, clsVars, mainVars, syncVars, upVars, toolVars>>

\* format_converter.py: FormatConverter.prepare_training_dataset called with
\* a train_split.
FcPrepareTrainingDataset ==
    /\ orgCall.tool = "format_converter.py"
    /\ \E processed_images \in ListsOf(ProcessedImages) :
       \E shuffled \in Shuffles(processed_images) :
       \E train_split \in Ratios :
           prepare_training_dataset("FormatConverter.prepare_training_dataset",
                                    processed_images, shuffled, train_split)
    /\ UNCHANGED <<cliArgs, clsVars, mainVars, syncVars, upVars, toolVars>>

\* format_converter.py: process_cad_files, which ends in
\* self.prepare_training_dataset(processed_images).
FcProcessCadFiles ==
    /\ orgCall.tool = "format_converter.py"
    /\ \E processed_images \in ListsOf(ProcessedImages) :
       \E shuffled \in Shuffles(processed_images) :
           prepare_training_dataset("FormatConverter.process_cad_files",
                                    processed_images, shuffled, DefaultRatio)
    /\ UNCHANGED <<cliArgs, clsVars, mainVars, syncVars, upVars, toolVars>>

\* extract_from_pdf.py: PDFDataExtractor.prepare_training_dataset called with
\* a train_split; processed_images is its glob of images/processed.
PdfPrepareTrainingDataset ==
    /\ orgCall.tool = "extract_from_pdf.py"
    /\ \E processed_images \in { l \in ListsOf(ProcessedImages) : NoRepeat(l) } :
       \E shuffled \in Shuffles(processed_images) :
       \E train_split \in Ratios :
           prepare_training_dataset("PDFDataExtractor.prepare_training_dataset",
                                    processed_images, shuffled, train_split)
    /\ UNCHANGED <<cliArgs, clsVars, mainVars, syncVars, upVars, toolVars>>

\* extract_from_pdf.py: process_directory, which ends in
\* self.prepare_training_dataset().
PdfProcessDirectory ==
    /\ orgCall.tool = "extract_from_pdf.py"
    /\ \E processed_images \in { l \in ListsOf(ProcessedImages) : NoRepeat(l) } :
       \E shuffled \in Shuffles(processed_images) :
           prepare_training_dataset("PDFDataExtractor.process_directory",
                                    processed_images, shuffled, DefaultRatio)
    /\ UNCHANGED <<cliArgs, clsVars, mainVars, syncVars, upVars, toolVars>>

NextOrganize ==
    \/ OrganizeTrainingData
    \/ FcPrepareTrainingDataset
    \/ FcProcessCadFiles
    \/ PdfPrepareTrainingDataset
    \/ PdfProcessDirectory

SpecOrganize == InitOrganize /\ [][NextOrganize]_vars

C6_ImageDirs == { "dataset/images/train", "dataset/images/val",
               "dataset/train/images", "dataset/val/images" }

\* The label directory that matches an image directory.
C6_LabelDirOf(d) ==
    CASE d = "dataset/images/train" -> "dataset/labels/train"
      [] d = "dataset/images/val" -> "dataset/labels/val"
      [] d = "dataset/train/images" -> "dataset/train/labels"
      [] OTHER -> "dataset/val/labels"

\* The stem of a file name, read off the name: all before its last dot.
C6_Stem(name) ==
    LET dots == { i \in 2..(Len(name) - 1) : name[i] = "." }
    IN  IF dots = {} THEN name
        ELSE SubSeq(name, 1, (CHOOSE i \in dots : \A j \in dots : j <= i) - 1)

\* C6: after any run of a dataset-organising step, every image the step
\* placed in a train or val image directory has a label text file with the
\* same stem in the matching label directory.
C6_EveryImageHasLabel ==
    \A f \in fs :
        f.dir \in C6_ImageDirs =>
            \E g \in fs :
                /\ g.dir = C6_LabelDirOf(f.dir)
                /\ C6_Stem(g.name) = C6_Stem(f.name)
                /\ Len(g.name) > 4
                /\ SubSeq(g.name, Len(g.name) - 3, Len(g.name)) = <<".", "t", "x", "t">>

\* A run has placed an image with a dotted stem in val and one in train.
C6_Witness ==
    /\ \E f \in fs : f.dir = "dataset/val/images" /\ f.name = <<"b", ".", "v">> \o ext_png
    /\ \E f \in fs : f.dir = "dataset/train/images"
    /\ orgCall.tool = "extract_from_pdf.py"

\* How often x occurs in a list.
C7_Count(lst, x) == Cardinality({ i \in 1..Len(lst) : lst[i] = x })

C7_Organized == orgCall.tool = "prepare_training_data.py" /\ orgRet # <<>>

\* floor(n * num / den) for den > 0
C7_Floor(n, ratio) == (n * ratio[1]) \div ratio[2]

\* Every input image was copied to exactly one of train and val, none to
\* both or dropped, and the returned counts are those of the copies.
C7_Partition ==
    LET copies == orgCall.copies
        n == Len(orgCall.input)
        train == { i \in 1..Len(copies) : copies[i].image.dir = "dataset/images/train" }
        val == { i \in 1..Len(copies) : copies[i].image.dir = "dataset/images/val" }
    IN  /\ Len(copies) = n
        /\ train \cup val = 1..Len(copies)
        /\ train \cap val = {}
        /\ \A x \in ExtractedImages :
              C7_Count([i \in 1..Len(copies) |-> copies[i].src], x)
                  = C7_Count(orgCall.input, x)
        /\ \A i, j \in 1..Len(copies) : copies[i].image = copies[j].image => i = j
        /\ \A i \in 1..Len(copies) : copies[i].image \in fs
        /\ orgRet = << Cardinality(train), Cardinality(val) >>
        /\ orgRet[1] + orgRet[2] = n

\* C7 as stated: the train part has exactly floor(n * split_ratio) images
\* and the val part the rest, for every split_ratio passed.
C7_SplitAtFloor ==
    C7_Organized =>
        /\ C7_Partition
        /\ orgRet[1] = C7_Floor(Len(orgCall.input), orgCall.ratio)
        /\ orgRet[2] = Len(orgCall.input) - C7_Floor(Len(orgCall.input), orgCall.ratio)

\* C7 as amended: for 0 <= split_ratio <= 1 the train part has exactly
\* floor(n * split_ratio) images and the val part the rest; for every
\* split_ratio each input image is copied to exactly one of train and val
\* and the returned pair is (train count, val count), summing to n.
C7_SplitAtFloorInRange ==
    C7_Organized =>
        /\ C7_Partition
        /\ (0 <= orgCall.ratio[1] /\ orgCall.ratio[1] <= orgCall.ratio[2]) =>
              /\ orgRet[1] = C7_Floor(Len(orgCall.input), orgCall.ratio)
              /\ orgRet[2] = Len(orgCall.input)
                                - C7_Floor(Len(orgCall.input), orgCall.ratio)

\* Two images were split one to train and one to val at ratio 0.8.
C7_Witness ==
    /\ C7_Organized
    /\ orgCall.ratio = <<4, 5>>
    /\ orgRet = <<1, 1>>

(***************************************************************************)
(* SpecSync: sync_classes and validate_sync run, in any order and any      *)
(* number of times, on one config.yaml.                                    *)
(***************************************************************************)

\* The number of class indices a generated names mapping may give a name.
MaxClasses == 2

\* Class names: plain, padded with a space, empty, reserved, holding a line
\* break.
NamePool == { <<"a">>, <<"b">>, <<" ", "a">>, <<>>, str_reserved \o <<"1">>,
              <<"a", "\n", "b">> }

NameMaps == UNION { [D -> NamePool] : D \in SUBSET (0..(MaxClasses - 1)) }

Configs ==
    { [kind |-> k, has_nc |-> FALSE, nc |-> 0, names |-> <<>>] :
        k \in {"missing", "unreadable", "no_names"} }
    \cup { [kind |-> "ok", has_nc |-> FALSE, nc |-> 0, names |-> m] : m \in NameMaps }
    \cup { [kind |-> "ok", has_nc |-> TRUE, nc |-> n, names |-> m] :
             n \in (-1)..(MaxClasses + 1), m \in NameMaps }

Stale == [exists |-> TRUE, content |-> <<"o", "l", "d", "\n">>]

InitSync ==
    /\ config \in Configs
    /\ \E f \in {Missing, Stale} :
          classesFiles = [t \in {TargetFiles[1], TargetFiles[2]} |-> f]
    /\ writable \in SUBSET {TargetFiles[1], TargetFiles[2]}
    /\ syncRet = "none"
    /\ validateRet = "none"
    /\ ClsAtRest /\ MainAtRest /\ OrgAtRest /\ UpAtRest /\ ToolsAtRest

NextSync == SyncClasses \/ ValidateSync

SpecSync == InitSync /\ [][NextSync]_vars

\* C8: whenever sync_classes has returned True, a validate_sync call that
\* follows it, config.yaml and both classes.txt untouched in between,
\* returns True, for every config.yaml sync_classes accepts.
C8_ValidateAfterSync ==
    [][(syncRet = "True" /\ ValidateSync) => validateRet' = "True"]_vars

\* The lines of a written file: the text between line terminators.
C9_LineCount(text) == Cardinality({ i \in 1..Len(text) : text[i] = "\n" })

C9_Line(text, i) ==
    LET ends == { j \in 1..Len(text) : text[j] = "\n" }
        endOf(k) == CHOOSE j \in ends : Cardinality({ e \in ends : e < j }) = k - 1
        from == IF i = 1 THEN 1 ELSE endOf(i - 1) + 1
    IN  SubSeq(text, from, endOf(i) - 1)

C9_Nc == IF config.has_nc THEN config.nc ELSE Cardinality(DOMAIN config.names)

C9_Name(i) ==
    IF i \in DOMAIN config.names THEN config.names[i]
    ELSE <<"m","i","s","s","i","n","g","_","c","l","a","s","s","_">> \o <<Digit(i)>>

\* The files the last sync_classes wrote.
C9_Written ==
    IF syncRet = "none" \/ config.kind # "ok" THEN {}
    ELSE { t \in DOMAIN classesFiles : t \in writable }

C9_LinesAreNames(text) ==
    /\ C9_LineCount(text) = C9_Nc
    /\ text[Len(text)] = "\n"
    /\ \A i \in 1..C9_Nc : C9_Line(text, i) = C9_Name(i - 1)

\* C9 as stated: each classes.txt written has exactly nc lines, line i being
\* the name of class index i or missing_class_i, reserved_ classes kept in
\* place, and both target files receive identical content.
C9_NcLines ==
    /\ \A t \in C9_Written : C9_LinesAreNames(classesFiles[t].content)
    /\ \A t, u \in C9_Written : classesFiles[t].content = classesFiles[u].content

\* C9 as amended: the same for every config with nc >= 1 none of whose names
\* for the indices below nc holds a line break; with nc <= 0 the file
\* written is a single empty line.
C9_NcLinesWhenPositive ==
    /\ \A t \in C9_Written :
          /\ (/\ C9_Nc >= 1
              /\ \A i \in 0..(C9_Nc - 1) : \A j \in 1..Len(C9_Name(i)) :
                    C9_Name(i)[j] \notin {"\n", "\r"})
                => C9_LinesAreNames(classesFiles[t].content)
          /\ C9_Nc <= 0 => classesFiles[t].content = <<"\n">>
    /\ \A t, u \in C9_Written : classesFiles[t].content = classesFiles[u].content

\* Both files were written for a config with a reserved class, a named class
\* and a missing index.
C9_Witness ==
    /\ syncRet = "True"
    /\ C9_Nc = 3
    /\ 0 \in DOMAIN config.names /\ StartsWith(config.names[0], str_reserved)
    /\ 1 \in DOMAIN config.names /\ config.names[1] = <<"a">>
    /\ classesFiles["classes.txt"].content = classesFiles["dataset/classes.txt"].content
    /\ C9_LineCount(classesFiles["classes.txt"].content) = 3

(***************************************************************************)
(* SpecUpload: requests to the backend, one after another.                 *)
(***************************************************************************)

InitUpload ==
    /\ uploads = <<>>
    /\ response = [status |-> 0]
    /\ handlerRuns = <<>>
    /\ ClsAtRest /\ MainAtRest /\ SyncAtRest /\ OrgAtRest /\ ToolsAtRest

NextUpload == Upload \/ Index

SpecUpload == InitUpload /\ [][NextUpload]_vars

\* The step is a POST /upload.
C10_IsUpload == response'.body # "ElectroVision AI Backend Running..."

\* C10: POST /upload without a 'file' part is answered 400 'No file part',
\* and with a 'file' part whose filename is empty 400 'No selected file';
\* in both cases no file is written to the upload folder and no handler runs.
C10_RejectsMissingFile ==
    [][ /\ (C10_IsUpload /\ ~response'.request.has_file) =>
              /\ response'.status = 400
              /\ response'.body = "No file part"
              /\ uploads' = uploads
              /\ handlerRuns' = <<>>
        /\ (C10_IsUpload /\ response'.request.has_file
                /\ Len(response'.request.filename) = 0) =>
              /\ response'.status = 400
              /\ response'.body = "No selected file"
              /\ uploads' = uploads
              /\ handlerRuns' = <<>>
      ]_vars

\* A request with an empty filename was answered after an earlier upload had
\* been saved.
C10_Witness ==
    /\ response.status = 400
    /\ response.request.has_file
    /\ response.request.filename = <<>>
    /\ response.body = "No selected file"
    /\ uploads # <<>>

\* The request answered last was a POST /upload carrying a named file.
C11_Uploaded ==
    /\ response.status # 0
    /\ response.body # "ElectroVision AI Backend Running..."
    /\ response.request.has_file
    /\ response.request.filename # <<>>

\* The sanitised filename of the request answered last.
C11_Sanitised == secure_filename(response.request.filename)

\* The sanitised filename has an extension: it holds a dot.
C11_HasExtension == LastDot(C11_Sanitised, Len(C11_Sanitised)) > 0

\* The text after the last dot of the sanitised filename, in lower case.
C11_Extension == Lower(AfterLastDot(C11_Sanitised))

\* C11: upload_file accepts exactly the extensions pdf, dwg and dxf, compared
\* case-insensitively on the text after the last dot of the sanitised
\* filename: a pdf upload goes to handle_pdf and a PDF document is answered
\* 'PDF processed', a dwg or dxf upload goes to handle_dwg_dxf and a DXF
\* document is answered 'DWG/DXF parsed', and every other upload is answered
\* 400 'Unsupported file type' without either handler running.
C11_ExactlyPdfDwgDxf ==
    C11_Uploaded =>
        IF C11_HasExtension /\ C11_Extension = str_pdf
        THEN /\ handlerRuns = <<"handle_pdf">>
             /\ response.request.content = "pdf" =>
                    response.status = 200 /\ response.body = "PDF processed"
        ELSE IF C11_HasExtension /\ C11_Extension \in {str_dwg, str_dxf}
        THEN /\ handlerRuns = <<"handle_dwg_dxf">>
             /\ response.request.content = "dxf" =>
                    response.status = 200 /\ response.body = "DWG/DXF parsed"
        ELSE /\ handlerRuns = <<>>
             /\ response.status = 400
             /\ response.body = "Unsupported file type"

\* The same for the uploads whose sanitised filename has an extension.
C11_DottedNamesOnly ==
    (C11_Uploaded /\ C11_HasExtension) => C11_ExactlyPdfDwgDxf

\* An upload whose whole sanitised filename is "pdf" was given to handle_pdf.
C11_UndottedName ==
    ~ ( /\ C11_Uploaded
        /\ ~C11_HasExtension
        /\ handlerRuns = <<"handle_pdf">>
        /\ response.body = "PDF processed" )

(***************************************************************************)
(* SpecLabelImg: the fix script run several times, in either mode, on one  *)
(* installation of LabelImg.                                               *)
(***************************************************************************)

\* The setValue call sites of the installed labelImg.py, at most.
MaxCalls == 2

CallSites ==
    [self : BOOLEAN, name : { <<"x">>, str_bar, str_h_bar, str_v_bar }, wraps : {0, 1}]

LabelImgSources == UNION { [1..n -> CallSites] : n \in 0..MaxCalls }

InitLabelImg ==
    /\ labelimg_path \in BOOLEAN
    /\ main_file \in { Missing } \cup
                     { [exists |-> TRUE, content |-> c] : c \in LabelImgSources }
    /\ backup_file = Missing
    /\ installed = main_file
    /\ fixLog = <<>>
    /\ ClsAtRest /\ MainAtRest /\ SyncAtRest /\ OrgAtRest /\ UpAtRest /\ TrainAtRest
    /\ SampleAtRest /\ CocoAtRest

NextLabelImg == ApplyFinalFix \/ RestoreBackup

SpecLabelImg == InitLabelImg /\ [][NextLabelImg]_vars

\* Some run in the log was an apply_final_fix.
C12_FixHasRun(log) == \E i \in 1..Len(log) : log[i][1] = "fix"

\* C12: after one or more apply_final_fix runs, restore_backup leaves
\* labelImg.py with exactly the content it had before the first of them; and
\* a backup file that exists is never written again.
C12_RestoreGivesOriginal ==
    [][ /\ (C12_FixHasRun(fixLog) /\ fixLog'[Len(fixLog')][1] = "restore") =>
              main_file' = installed
        /\ backup_file.exists => backup_file' = backup_file
      ]_vars

\* restore_backup succeeded after two apply_final_fix runs, the second of
\* which changed a file that the first had already changed.
C12_Witness ==
    /\ Len(fixLog) = 3
    /\ fixLog[1][1] = "fix" /\ fixLog[2][1] = "fix"
    /\ fixLog[3] = <<"restore", TRUE>>
    /\ FinalFix(installed.content) # installed.content
    /\ FinalFix(FinalFix(installed.content)) # FinalFix(installed.content)
    /\ main_file = installed

(***************************************************************************)
(* SpecTrain: one trainer, constructed, then train_model.                  *)
(***************************************************************************)

\* The files of each val directory, at most.
MaxValFiles == 1

CudaStates ==
    { [available |-> FALSE, memory |-> 0, test_ok |-> FALSE, to_ok |-> FALSE] }
    \cup [available : {TRUE}, memory : {4, 6, 8}, test_ok : BOOLEAN, to_ok : BOOLEAN]

BatchSizes == {1, 5, 16}

ValImageNames == { <<"a">> \o ext_png, <<"b", ".", "t", "i", "f", "f">>, <<"c">> \o ext_txt }

ValLabelFiles == { [name |-> <<"a">> \o ext_txt, size |-> 0],
                   [name |-> <<"b">> \o ext_txt, size |-> 12],
                   [name |-> <<"c", ".", "j", "s", "o", "n">>, size |-> 7] }

UpTo(S, n) == { T \in SUBSET S : Cardinality(T) <= n }

Messages ==
    { <<>>,
      str_nms \o <<" ">> \o str_CUDA,
      str_nms,
      str_nms \o <<" ", "c", "u", "d", "a">>,
      str_out_of_memory,
      str_CUDA \o <<" ", "O", "u", "t", " ", "O", "f", " ", "M", "e", "m", "o", "r", "y">>,
      str_nms \o <<" ">> \o str_CUDA \o <<" ">> \o str_out_of_memory }

Exceptions ==
    [type : {"NotImplementedError", "RuntimeError"}, msg : Messages]
    \cup { [type |-> "ValueError", msg |-> str_out_of_memory] }

Outcomes ==
    { <<first, second>> :
        first \in { <<"ok">> } \cup { <<"raise", e>> : e \in Exceptions },
        second \in { <<"ok">>,
                     <<"raise", [type |-> "RuntimeError", msg |-> str_out_of_memory]>>,
                     <<"raise", [type |-> "ValueError", msg |-> <<>>]>> } }

InitTrain ==
    /\ trainEnv \in [cuda : CudaStates,
                     val_images : UpTo(ValImageNames, MaxValFiles),
                     val_labels : UpTo(ValLabelFiles, MaxValFiles),
                     outcomes : Outcomes]
    /\ \E b \in BatchSizes : trainerConfig = load_config(trainEnv.cuda, b)
    /\ trainCalls = <<>>
    /\ trainRet = <<>>
    /\ dynamic_config = Missing
    /\ ClsAtRest /\ MainAtRest /\ SyncAtRest /\ OrgAtRest /\ UpAtRest /\ FixAtRest
    /\ SampleAtRest /\ CocoAtRest

NextTrain == TrainModel

SpecTrain == InitTrain /\ [][NextTrain]_vars

\* train_model has run.
C13_Done == trainRet # <<>>

\* The first model.train call raised e.
C13_FirstRaised(e) == trainEnv.outcomes[1] = <<"raise", e>>

\* e is a NotImplementedError whose message names 'torchvision::nms' and 'CUDA'.
C13_NmsFailure(e) ==
    /\ e.type = "NotImplementedError"
    /\ Contains(e.msg, str_nms) /\ Contains(e.msg, str_CUDA)

\* e is a RuntimeError whose message contains 'out of memory' in any case.
C13_OomFailure(e) ==
    /\ e.type = "RuntimeError"
    /\ Contains(Lower(e.msg), str_out_of_memory)

\* The retry was the last attempt: train_model ended as the retry did.
C13_RetryEnds ==
    /\ Len(trainCalls) = 2
    /\ trainEnv.outcomes[2] = <<"ok">> => trainRet = <<"return">>
    /\ trainEnv.outcomes[2] # <<"ok">> => trainRet = trainEnv.outcomes[2]

\* C13: train_model retries a failed training at most once and only for two
\* failures: the torchvision NMS failure is followed by exactly one retry with
\* device 'cpu', an out-of-memory RuntimeError by exactly one retry with batch
\* size max(1, batch_size // 2) on the same device; any other exception, and
\* any exception of the retry, propagates without a further attempt.
C13_RetriesOnceForTwoFailures ==
    C13_Done =>
        IF trainEnv.outcomes[1] = <<"ok">>
        THEN Len(trainCalls) = 1 /\ trainRet = <<"return">>
        ELSE \A e \in Exceptions : C13_FirstRaised(e) =>
                IF C13_NmsFailure(e)
                THEN C13_RetryEnds /\ trainCalls[2].device = "cpu"
                ELSE IF C13_OomFailure(e)
                THEN /\ C13_RetryEnds
                     /\ trainCalls[2].device = trainCalls[1].device
                     /\ trainCalls[2].batch =
                            (IF trainCalls[1].batch \div 2 > 1
                             THEN trainCalls[1].batch \div 2 ELSE 1)
                ELSE Len(trainCalls) = 1 /\ trainRet = <<"raise", e>>

\* The same where CUDA is available.
C13_RetriesWithCuda == trainEnv.cuda.available => C13_RetriesOnceForTwoFailures

\* An image was found in dataset/images/val.
C14_ImageFound ==
    \E n \in trainEnv.val_images : \E ext \in val_image_extensions : EndsWith(n, ext)

\* A non-empty label file was found in dataset/labels/val.
C14_LabelFound ==
    \E f \in trainEnv.val_labels : EndsWith(f.name, ext_txt) /\ f.size > 0

\* C14: every training attempt runs with validation enabled if and only if
\* an image was found in dataset/images/val and a non-empty label file in
\* dataset/labels/val; the dataset_dynamic.yaml it is given points 'val' at
\* dataset/images/val when validation is enabled and at the training image
\* directory when it is not.
C14_DynamicValidation ==
    C13_Done =>
        \A i \in 1..Len(trainCalls) :
            /\ trainCalls[i].val = (C14_ImageFound /\ C14_LabelFound)
            /\ trainCalls[i].data.train = "dataset/images/train"
            /\ trainCalls[i].data.val = IF trainCalls[i].val THEN "dataset/images/val"
                                        ELSE trainCalls[i].data.train

\* A training with its retry ran with validation disabled although the val
\* image directory held an image: the only label file was empty.
C14_Witness ==
    /\ trainRet = <<"return">>
    /\ Len(trainCalls) = 2
    /\ C14_ImageFound
    /\ \E f \in trainEnv.val_labels : EndsWith(f.name, ext_txt) /\ f.size = 0
    /\ ~trainCalls[2].val
    /\ trainCalls[2].data.val = "dataset/images/train"

(***************************************************************************)
(* SpecSample: get_sample_data.py run once.                                *)
(***************************************************************************)

InitSample ==
    /\ samplesMade = <<0, 0>>
    /\ lastSample = [label |-> <<>>]
    /\ ClsAtRest /\ MainAtRest /\ SyncAtRest /\ OrgAtRest /\ UpAtRest
    /\ FixAtRest /\ TrainAtRest /\ CocoAtRest

NextSample == GenerateSample \/ GenerateValSample

SpecSample == InitSample /\ [][NextSample]_vars

\* The four numbers of a label line lie in [0, 1] (.6f writes 1 as 1000000
\* millionths).
C15_InRange(line) == \A k \in 2..5 : 0 <= line[k] /\ line[k] <= 1000000

\* The box of a label line lies inside the image: centre minus and plus half
\* the size stay within [0, 1], on both axes.
C15_BoxInside(line) ==
    /\ 0 <= 2 * line[2] - line[4] /\ 2 * line[2] + line[4] <= 2000000
    /\ 0 <= 2 * line[3] - line[5] /\ 2 * line[3] + line[5] <= 2000000

\* C15: for every sample plan that generate_sample_dataset or main writes,
\* the four numbers of every label line lie in [0, 1] and every box lies
\* inside the image.
C15_LabelsNormalised ==
    lastSample.label # <<>> =>
        \A i \in 1..Len(lastSample.lines) :
            C15_InRange(lastSample.lines[i]) /\ C15_BoxInside(lastSample.lines[i])

\* The same for the images at least 510 high, the bottom of the ground symbol.
C15_NormalisedWhenTall ==
    (lastSample.label # <<>> /\ lastSample.height >= 510) => C15_LabelsNormalised

(***************************************************************************)
(* SpecCli: format_converter.py or extract_from_pdf.py run from the        *)
(* command line, with or without --train-split.                            *)
(***************************************************************************)

\* The values of --train-split that are ratios: 0 <= r <= 1.
TrainSplits == { r \in Ratios : 0 <= r[1] /\ r[1] <= r[2] }

\* main() of format_converter.py with --format cad (the default):
\* converter.process_cad_files(), which ends in
\* self.prepare_training_dataset(processed_images); args.train_split is not
\* passed on.
FcMain ==
    /\ orgCall.tool = "format_converter.py"
    /\ \E processed_images \in ListsOf(ProcessedImages) :
       \E shuffled \in Shuffles(processed_images) :
           prepare_training_dataset("format_converter.main",
                                    processed_images, shuffled, DefaultRatio)
    /\ UNCHANGED <<cliArgs, clsVars, mainVars, syncVars, upVars, toolVars>>

\* main() of extract_from_pdf.py: extractor.process_directory(), which ends
\* in self.prepare_training_dataset(); args.train_split is not passed on.
PdfMain ==
    /\ orgCall.tool = "extract_from_pdf.py"
    /\ \E processed_images \in { l \in ListsOf(ProcessedImages) : NoRepeat(l) } :
       \E shuffled \in Shuffles(processed_images) :
           prepare_training_dataset("extract_from_pdf.main",
                                    processed_images, shuffled, DefaultRatio)
    /\ UNCHANGED <<cliArgs, clsVars, mainVars, syncVars, upVars, toolVars>>

InitCli ==
    /\ orgCall \in { [tool |-> t] : t \in { "format_converter.py", "extract_from_pdf.py" } }
    /\ cliArgs \in { NoTrainSplit } \cup { [given |-> TRUE, train_split |-> r] : r \in TrainSplits }
    /\ fs = {}
    /\ orgRet = <<>>
    /\ ClsAtRest /\ MainAtRest /\ SyncAtRest /\ UpAtRest /\ ToolsAtRest

NextCli == FcMain \/ PdfMain

SpecCli == InitCli /\ [][NextCli]_vars

\* The images the last run placed in the train set and in the val set.
C16_Placed(dir) ==
    Cardinality({ i \in 1..Len(orgCall.copies) : orgCall.copies[i].image.dir = dir })

\* C16: a run with --train-split r places floor(n * r) of the n processed
\* images in the train set and the rest in the val set; a run without the
\* option does so with 0.8.
C16_TrainSplitSetsRatio ==
    orgRet # <<>> =>
        LET n == Len(orgCall.input)
            r == IF cliArgs.given THEN cliArgs.train_split ELSE DefaultRatio
        IN  /\ C16_Placed("dataset/train/images") = C7_Floor(n, r)
            /\ C16_Placed("dataset/val/images") = n - C7_Floor(n, r)

\* The same for the runs without the option.
C16_DefaultSplit == ~cliArgs.given => C16_TrainSplitSetsRatio

(***************************************************************************)
(* SpecCoco: convert_coco_to_yolo run on one COCO file.                    *)
(***************************************************************************)

\* The entries of the 'images' list, at most.
MaxCocoImages == 2
\* The entries of the 'annotations' list, at most.
MaxCocoAnns == 2

CocoCategories ==
    << [id |-> 1, name |-> <<"s", "w", "i", "t", "c", "h">>],
       [id |-> 2, name |-> <<"O", "u", "t", "l", "e", "t">>],
       [id |-> 2, name |-> <<"f", "a", "n">>] >>

\* The file names of the images; two of them have the same stem.
CocoImageNames == { <<"x">> \o ext_jpg, <<"x">> \o ext_png, <<"y">> \o ext_jpg }

\* 'images' lists: images 10 wide and 20 high, each with an id and a
\* file_name of its own.
CocoImageLists ==
    { [i \in 1..Len(names) |->
          [id |-> i, width |-> 10, height |-> 20, file_name |-> names[i]]] :
      names \in { l \in UNION { [1..n -> CocoImageNames] : n \in 0..MaxCocoImages } :
                    NoRepeat(l) } }

\* Boxes filling the image, inside it, and reaching outside it, of known
\* categories; and a box of a category_id that is no category.
CocoAnnotations ==
    [image_id : 1..MaxCocoImages, category_id : {1}, bbox : { <<0, 0, 10, 20>> }]
    \cup [image_id : 1..MaxCocoImages, category_id : {2},
          bbox : { <<3, 5, 1, 3>>, <<8, 0, 5, 5>> }]
    \cup [image_id : 1..MaxCocoImages, category_id : {9}, bbox : { <<3, 5, 1, 3>> }]

CocoFiles ==
    { [loads |-> FALSE, categories |-> <<>>, images |-> <<>>, annotations |-> <<>>] }
    \cup [loads : {TRUE}, categories : {CocoCategories},
          images : CocoImageLists,
          annotations : UNION { [1..n -> CocoAnnotations] : n \in 0..MaxCocoAnns }]

InitCoco ==
    /\ cocoData \in CocoFiles
    /\ yoloDir = {}
    /\ cocoLog = "none"
    /\ ClsAtRest /\ MainAtRest /\ SyncAtRest /\ OrgAtRest /\ UpAtRest
    /\ FixAtRest /\ TrainAtRest /\ SampleAtRest

NextCoco == ConvertCocoToYolo

SpecCoco == InitCoco /\ [][NextCoco]_vars

\* The conversion ran to its end.
C17_Converted == cocoLog = "Successfully converted COCO annotations to YOLO format"

\* The annotations of an entry of the 'images' list, in order.
C17_AnnsOf(img) == SelectSeq(cocoData.annotations, LAMBDA a : a.image_id = img.id)

\* The bbox lies inside the image.
C17_Inside(bbox, img) ==
    /\ 0 <= bbox[1] /\ 0 <= bbox[2]
    /\ bbox[1] + bbox[3] <= img.width
    /\ bbox[2] + bbox[4] <= img.height

\* f is the label file of img: it is named after the stem of the image, has
\* one line per annotation of the image (none for an image without), and
\* the numbers of the line of an annotation inside the image lie in [0, 1].
C17_LabelOf(f, img) ==
    /\ f.name = PathStem(img.file_name) \o ext_txt
    /\ Len(f.lines) = Len(C17_AnnsOf(img))
    /\ \A k \in 1..Len(f.lines) :
          C17_Inside(C17_AnnsOf(img)[k].bbox, img) =>
              \A c \in 2..5 : 0 <= f.lines[k][c] /\ f.lines[k][c] <= 1000000

\* C17: a conversion writes exactly one label file per entry of the 'images'
\* list: the files are as many as the entries and every entry has its own.
C17_OneLabelPerImage ==
    C17_Converted =>
        /\ Cardinality(yoloDir) = Len(cocoData.images)
        /\ \A i \in 1..Len(cocoData.images) :
              \E f \in yoloDir : C17_LabelOf(f, cocoData.images[i])

\* The 'images' list names no stem twice.
C17_StemsDiffer ==
    \A i, j \in 1..Len(cocoData.images) :
        PathStem(cocoData.images[i].file_name) = PathStem(cocoData.images[j].file_name)
            => i = j

\* The same for the COCO files whose images have stems of their own.
C17_OneLabelPerStem == C17_StemsDiffer => C17_OneLabelPerImage

====
